---- MODULE Spec2Model ----
(***************************************************************************)
(* Safety Pulse backend: reports (SafetySignal), votes                     *)
(* (ReportVerification), device reputation (DeviceActivity), the HTTP      *)
(* handlers of app/routes/report.py and the services they and the          *)
(* background workers call (ReportLifecycleService, TrustScoringService,   *)
(* ExpirationService).                                                     *)
(* Pulse tiles (PulseTile) with PulseAggregationService, PulseDecayService *)
(* and the decay worker of app/main.py, whose times are minutes; the rate  *)
(* limiter middleware, whose times are seconds; and spike detection        *)
(* (PatternDetectionService.detect_spikes), which sees reports by their    *)
(* age in minutes.                                                         *)
(*                                                                         *)
(* Numbers.  Python floats in [0, 1] are fixed-point thousandths           *)
(* (0.6 is 600); a product or quotient is computed exactly and rounded     *)
(* down once, where the code rounds to the nearest double.  Times are      *)
(* whole hours since the start of the run; the clock is observed at the    *)
(* instants of TimePoints.  A NULL column is the value NULL.               *)
(***************************************************************************)
EXTENDS Integers, FiniteSets, Sequences, Bags, TLC

VARIABLES
    now,               \* datetime.now(timezone.utc), in hours
    signals,           \* table safety_signals: id -> row
    votes,             \* table report_verifications: a bag of (signal_id, user_id, is_true)
    device_activity,   \* table device_activity: device_hash -> row
    resp,              \* the result of the call that was made last
    uniqueConstraint,  \* whether the schema holds uq_user_signal_vote
    req,               \* concurrent vote requests: id -> position and session state
    steps,             \* the number of calls that changed a report or a vote so far
    quiet,             \* whether the call that was made last changed no table
    pulse_tiles,       \* table pulse_tiles: tile_id -> row
    in_memory_requests,\* rate_limiter._in_memory_requests: client -> times of its requests
    current_time,      \* time.time() and datetime.now() of the process, in seconds
    tile_reports,      \* safety_signals as spike detection reads it: geohash -> reports
    spikes,            \* what detect_spikes returned last
    workers,           \* the background threads of main.py: name -> position
    cache              \* routes/pulse.py cache: what GET /pulse stored, and when

vars == <<now, signals, votes, device_activity, resp, uniqueConstraint, req, steps, quiet,
          pulse_tiles, in_memory_requests, current_time, tile_reports, spikes, workers, cache>>

\* What spike detection reads and returns
spike_vars == <<tile_reports, spikes>>

\* What the rate limiter keeps
rate_vars == <<in_memory_requests, current_time>>

\* What the handlers and services of reports and votes never write
aside == <<pulse_tiles, rate_vars, spike_vars, workers, cache>>

\* What the pulse services and workers never write
report_vars == <<signals, votes, device_activity, uniqueConstraint, req, steps, quiet,
                 rate_vars, spike_vars, workers, cache>>

\* ------------------------------------------------------------------ bounds
SignalIds == {"s1"}
AllSignalIds == {"s1", "s2"}
Users == {"u1", "u2", "u3"}
Reporters == {"u1"}
Severities == {5}
ReportedTypes == {"harassment"}
Clients == {"device-1"}
RateTimes == {0, 1, 60}

\* Spike detection: the reports of two geohashes, by their age in minutes when
\* detect_spikes runs and by is_valid; the numbers of reports of one age are drawn
\* from SlotCounts
Geohashes == {"tdr1v9", "tdr1vc"}
ReportAges == {0, 20, 30}
SlotCounts == {0, 1, 5, 9, 10}
InvalidCounts == {0, 5}
NoTileReports == [geohash \in Geohashes |->
                    [valid |-> [age \in ReportAges |-> 0], invalid |-> 0]]
TimePoints == {0, 12, 73}
RequestIds == {"q1", "q2"}
RaceVoters == {"u2", "u3"}
MaxSteps == 4

\* A crowd of voters who vote one after another, in this order
VoterNames == <<"u2", "u3", "u4", "u5", "u6", "u7", "u8", "u9">>
MaxVoters == 6
Crowd == {VoterNames[i] : i \in 1..MaxVoters}
AllUsers == Users \cup Crowd

NULL == -1

Max(a, b) == IF a >= b THEN a ELSE b
Min(a, b) == IF a <= b THEN a ELSE b

\* ------------------------------------------------------- program constants
MIN_TRUST_SCORE == 200
MAX_TRUST_SCORE == 1000
VERIFY_THRESHOLD == 700
DISPUTE_THRESHOLD == 300
MIN_VOTES_FOR_STATUS_UPDATE == 3
VOTE_WINDOW_HOURS == 72
DELETE_COOLDOWN_HOURS == 1
EXPIRATION_HOURS == 24
VOTE_WEIGHT == 400
TRUST_WEIGHT == 300
RECENCY_WEIGHT == 200
SEVERITY_WEIGHT == 100

\* ------------------------------------------------------------------- rows
AbsentSignal ==
    [row |-> "absent", user_id |-> "", signal_type |-> "", severity |-> 0,
     timestamp |-> NULL,
     trust_score |-> 0, confidence_score |-> 0, severity_weight |-> 0,
     true_votes |-> 0, false_votes |-> 0, status |-> "pending", is_valid |-> FALSE,
     vote_window_expires_at |-> NULL, expires_at |-> NULL,
     delete_cooldown_expires_at |-> NULL, verified_at |-> NULL, disputed_at |-> NULL,
     deleted_by_owner |-> FALSE, abuse_flags |-> FALSE]

\* models.SignalType
SignalType == {"followed", "suspicious_activity", "unsafe_area", "harassment", "other"}

\* A row removed by db.delete(signal): its uuid4 primary key is not used again.
GoneSignal == [AbsentSignal EXCEPT !.row = "gone"]

Live(sid) == signals[sid].row = "live"

NoActivity == [row |-> FALSE, submission_count |-> 0, last_submission |-> NULL,
               anomaly_score |-> 0]

Vote(sid, uid, is_true) == [signal_id |-> sid, user_id |-> uid, is_true |-> is_true]

\* db.query(ReportVerification).filter(signal_id, user_id): the rows of a (report, voter) pair
VotesOf(vs, sid, uid) == CopiesIn(Vote(sid, uid, TRUE), vs) + CopiesIn(Vote(sid, uid, FALSE), vs)

\* .first() of that query: the row found, when only one exists
FirstVoteIsTrue(vs, sid, uid) == CopiesIn(Vote(sid, uid, TRUE), vs) > 0

\* The reports of the model lie in one geohash tile of precision 6
TileIds == {"tdr1v9"}

\* A pulse_tiles row.  Its times are minutes since the start of the run; intensity is
\* in thousandths.  aggregated_at and aggregated_intensity are no columns: they keep
\* the time and the intensity that upsert_pulse wrote last.
AbsentTile ==
    [row |-> "absent", intensity |-> 0, radius |-> 0, confidence_level |-> "",
     dominant_reason |-> "", signal_count |-> 0, expires_at |-> NULL,
     last_updated |-> NULL, aggregated_at |-> NULL, aggregated_intensity |-> 0]

Response(op, sid, uid, code) == [op |-> op, sid |-> sid, uid |-> uid, code |-> code]

\* ------------------------------------------------------------ TrustScoringService
clamp_trust_score(score) == Max(MIN_TRUST_SCORE, Min(MAX_TRUST_SCORE, score))

calculate_base_trust_score(da, is_authenticated) ==
    IF ~da.row
    THEN IF is_authenticated THEN clamp_trust_score(600) ELSE clamp_trust_score(MIN_TRUST_SCORE)
    ELSE LET submission_bonus == Min(400, da.submission_count * 20)
             auth_bonus == IF is_authenticated THEN 150 ELSE 0
             anomaly_penalty == (da.anomaly_score * 300) \div 1000
         IN  clamp_trust_score(MIN_TRUST_SCORE + submission_bonus + auth_bonus - anomaly_penalty)

calculate_trust_score(da, is_authenticated) == calculate_base_trust_score(da, is_authenticated)

\* base * (1 - vote_weight) + trust_ratio * vote_weight, with trust_ratio = true / total
\* and vote_weight = min(0.4, total / 10 * 0.4)
calculate_verification_based_trust(true_votes, false_votes, base_trust_score) ==
    LET total_votes == true_votes + false_votes
        vote_weight == Min(400, total_votes * 40)
    IN  IF total_votes = 0
        THEN clamp_trust_score(base_trust_score)
        ELSE clamp_trust_score(
                (base_trust_score * (1000 - vote_weight) * total_votes
                    + true_votes * 1000 * vote_weight) \div (1000 * total_votes))

\* blended_score = signal.trust_score * 0.6 + new_trust_score * 0.4
BlendTrust(s) ==
    LET new_trust_score == calculate_verification_based_trust(s.true_votes, s.false_votes, 500)
    IN  [s EXCEPT !.trust_score =
            clamp_trust_score((s.trust_score * 600 + new_trust_score * 400) \div 1000)]

IncrementVotes(s, is_true) ==
    IF is_true THEN [s EXCEPT !.true_votes = s.true_votes + 1]
               ELSE [s EXCEPT !.false_votes = s.false_votes + 1]

\* DecrementVotes without max(0, ...)
DecrementVotesUnclamped(s, was_true) ==
    IF was_true THEN [s EXCEPT !.true_votes = s.true_votes - 1]
                ELSE [s EXCEPT !.false_votes = s.false_votes - 1]

DecrementVotes(s, was_true) ==
    IF was_true THEN [s EXCEPT !.true_votes = Max(0, s.true_votes - 1)]
                ELSE [s EXCEPT !.false_votes = Max(0, s.false_votes - 1)]

update_signal_trust_from_vote(s, is_true_vote) == BlendTrust(IncrementVotes(s, is_true_vote))

revert_vote_from_signal(s, was_true_vote) == BlendTrust(DecrementVotes(s, was_true_vote))

\* ---------------------------------------------------------- ReportLifecycleService
can_accept_votes(s, t) ==
    /\ s.status \notin {"deleted", "expired"}
    /\ ~(s.vote_window_expires_at # NULL /\ t > s.vote_window_expires_at)

check_vote_window(s, t) ==
    IF ~can_accept_votes(s, t)
    THEN IF s.status = "deleted" THEN "deleted"
         ELSE IF s.status = "expired" THEN "expired"
         ELSE "window_closed"
    ELSE "ok"

\* has_user_voted looking for a second vote instead of a first
has_user_voted_twice(vs, sid, uid) == VotesOf(vs, sid, uid) > 1

has_user_voted(vs, sid, uid) == VotesOf(vs, sid, uid) > 0

check_vote_permission(vs, sid, s, uid, t) ==
    IF has_user_voted(vs, sid, uid) THEN "already_voted"
    ELSE IF check_vote_window(s, t) # "ok" THEN check_vote_window(s, t)
    ELSE IF s.user_id = uid THEN "self_vote"
    ELSE "ok"

calculate_confidence(s, true_votes, false_votes, t) ==
    LET total_votes == true_votes + false_votes
        vote_weight == Min(500, total_votes * 50)
        vote_confidence ==
            IF total_votes = 0 THEN 500
            ELSE (500 * (1000 - vote_weight) * total_votes
                    + true_votes * 1000 * vote_weight) \div (1000 * total_votes)
        hours_since == t - s.timestamp
        recency == Max(0, 1000 - (hours_since * 1000) \div 48)
        severity == s.severity * 200
        confidence == (vote_confidence * VOTE_WEIGHT + s.trust_score * TRUST_WEIGHT
                        + recency * RECENCY_WEIGHT + severity * SEVERITY_WEIGHT) \div 1000
    IN  Max(0, Min(1000, confidence))

\* update_status_from_votes without the MIN_VOTES_FOR_STATUS_UPDATE return
update_status_without_minimum(s, t) ==
    LET total_votes == s.true_votes + s.false_votes
        confidence == calculate_confidence(s, s.true_votes, s.false_votes, t)
        s1 == [s EXCEPT !.confidence_score = confidence]
    IN  IF total_votes = 0 THEN s1
        ELSE IF s1.status = "pending" /\ confidence >= VERIFY_THRESHOLD
             THEN [s1 EXCEPT !.status = "verified", !.verified_at = t]
        ELSE IF s1.status = "pending" /\ s.false_votes * 1000 >= DISPUTE_THRESHOLD * total_votes
             THEN [s1 EXCEPT !.status = "disputed", !.disputed_at = t]
        ELSE s1

\* update_status_from_votes without the tests for pending
update_status_of_any(s, t) ==
    LET total_votes == s.true_votes + s.false_votes
        confidence == calculate_confidence(s, s.true_votes, s.false_votes, t)
        s1 == [s EXCEPT !.confidence_score = confidence]
    IN  IF total_votes < MIN_VOTES_FOR_STATUS_UPDATE THEN s1
        ELSE IF confidence >= VERIFY_THRESHOLD
             THEN [s1 EXCEPT !.status = "verified", !.verified_at = t]
        ELSE IF s.false_votes * 1000 >= DISPUTE_THRESHOLD * total_votes
             THEN [s1 EXCEPT !.status = "disputed", !.disputed_at = t]
        ELSE s1

\* update_status_from_votes with the test for disputed before the test for verified
update_status_dispute_first(s, t) ==
    LET total_votes == s.true_votes + s.false_votes
        confidence == calculate_confidence(s, s.true_votes, s.false_votes, t)
        s1 == [s EXCEPT !.confidence_score = confidence]
    IN  IF total_votes < MIN_VOTES_FOR_STATUS_UPDATE THEN s1
        ELSE IF s1.status = "pending" /\ s.false_votes * 1000 >= DISPUTE_THRESHOLD * total_votes
             THEN [s1 EXCEPT !.status = "disputed", !.disputed_at = t]
        ELSE IF s1.status = "pending" /\ confidence >= VERIFY_THRESHOLD
             THEN [s1 EXCEPT !.status = "verified", !.verified_at = t]
        ELSE s1

update_status_from_votes(s, t) ==
    LET total_votes == s.true_votes + s.false_votes
        confidence == calculate_confidence(s, s.true_votes, s.false_votes, t)
        s1 == [s EXCEPT !.confidence_score = confidence]
    IN  IF total_votes < MIN_VOTES_FOR_STATUS_UPDATE THEN s1
        ELSE IF s1.status = "pending" /\ confidence >= VERIFY_THRESHOLD
             THEN [s1 EXCEPT !.status = "verified", !.verified_at = t]
        ELSE IF s1.status = "pending" /\ s.false_votes * 1000 >= DISPUTE_THRESHOLD * total_votes
             THEN [s1 EXCEPT !.status = "disputed", !.disputed_at = t]
        ELSE s1

check_and_expire_report(s, t) ==
    IF s.expires_at # NULL /\ t > s.expires_at /\ s.status # "deleted"
    THEN [s EXCEPT !.status = "expired"]
    ELSE IF s.vote_window_expires_at # NULL /\ t > s.vote_window_expires_at
            /\ s.status = "pending"
    THEN [s EXCEPT !.status = "expired"]
    ELSE s

check_delete_permission(s, uid, t) ==
    IF s.user_id # uid THEN "not_owner"
    ELSE IF s.status = "verified" /\ s.confidence_score >= 700 THEN "protected"
    ELSE IF s.delete_cooldown_expires_at # NULL /\ t < s.delete_cooldown_expires_at
         THEN "cooldown"
    ELSE "ok"

\* --------------------------------------------------------------- ExpirationService
\* math.exp(-age_hours / DECAY_HALF_LIFE_HOURS) in ten-thousandths, one hour at a
\* time: exp(-1/12) = 0.9200
RECURSIVE get_decay_factor(_)
get_decay_factor(age_hours) ==
    IF age_hours <= 0 THEN 10000
    ELSE (get_decay_factor(age_hours - 1) * 9200) \div 10000

get_time_category(s, t) ==
    LET age_hours == t - s.timestamp
    IN  IF 2 * age_hours <= 1 THEN "strong"
        ELSE IF age_hours <= 2 THEN "medium"
        ELSE IF age_hours <= EXPIRATION_HOURS THEN "weak"
        ELSE "expired"

apply_decay_to_signal(s, t) ==
    LET decay_factor == get_decay_factor(t - s.timestamp)
    IN  [s EXCEPT !.confidence_score = (s.confidence_score * decay_factor) \div 10000,
                  !.severity_weight = (s.severity_weight * decay_factor) \div 10000]

process_expired_signals(sigs, t) ==
    [sid \in AllSignalIds |->
        IF sigs[sid].row = "live" /\ sigs[sid].timestamp < t - EXPIRATION_HOURS
            /\ sigs[sid].is_valid
        THEN [sigs[sid] EXCEPT !.is_valid = FALSE, !.expires_at = t]
        ELSE sigs[sid]]

apply_decay_to_all_signals(sigs, t) ==
    [sid \in AllSignalIds |->
        IF sigs[sid].row = "live" /\ sigs[sid].is_valid
        THEN LET d == apply_decay_to_signal(sigs[sid], t)
             IN  IF get_time_category(d, t) = "expired"
                 THEN [d EXCEPT !.is_valid = FALSE, !.expires_at = t]
                 ELSE d
        ELSE sigs[sid]]

\* ------------------------------------------------------- PulseAggregationService
AGGREGATION_WINDOW_HOURS == 12
MIN_PULSE_INTENSITY == 50
DEFAULT_RADIUS == 200
MAX_RADIUS == 500
PULSE_EXPIRY_MINUTES == 24 * 60

SIGNAL_TYPE_WEIGHTS ==
    [st \in SignalType |->
        CASE st = "harassment" -> 1000
          [] st = "followed" -> 900
          [] st = "suspicious_activity" -> 800
          [] st = "unsafe_area" -> 700
          [] OTHER -> 500]

\* The query of aggregate_reports_per_tile without its time window
valid_reports_per_tile(sigs, t, tile_id) ==
    {sid \in AllSignalIds : sigs[sid].row = "live" /\ sigs[sid].is_valid}

RECURSIVE SumOf(_, _)
SumOf(f, S) ==
    IF S = {} THEN 0
    ELSE LET x == CHOOSE y \in S : TRUE IN f[x] + SumOf(f, S \ {x})

\* time_decay: exp(-hours_since / DECAY_HALF_LIFE_HOURS) in ten-thousandths, for whole
\* hours; exp(-1/6) is 0.8465
RECURSIVE time_decay(_)
time_decay(hours_since) ==
    IF hours_since <= 0 THEN 10000 ELSE (time_decay(hours_since - 1) * 8465) \div 10000

\* aggregate_reports_per_tile: the reports the query of one run returns for a tile
aggregate_reports_per_tile(sigs, t, tile_id) ==
    {sid \in AllSignalIds :
        /\ sigs[sid].row = "live"
        /\ sigs[sid].timestamp > t - AGGREGATION_WINDOW_HOURS
        /\ sigs[sid].is_valid}

\* calculate_weighted_intensity: the mean over the valid reports of
\* severity/5 * trust * time decay * type weight, times 1.1 from five reports on
calculate_weighted_intensity(sigs, t, reports) ==
    LET valid == {sid \in reports : sigs[sid].is_valid}
        report_weight == [sid \in valid |->
            LET severity == sigs[sid].severity * 200
                by_trust == (severity * sigs[sid].trust_score) \div 1000
                by_decay == (by_trust * time_decay(t - sigs[sid].timestamp)) \div 10000
            IN  (by_decay * SIGNAL_TYPE_WEIGHTS[sigs[sid].signal_type]) \div 1000]
        intensity == SumOf(report_weight, valid) \div Cardinality(valid)
    IN  IF valid = {} THEN 0
        ELSE IF Cardinality(reports) >= 5 THEN Min(1000, (intensity * 11) \div 10)
        ELSE Min(1000, Max(0, intensity))

_format_signal_type(st) ==
    CASE st = "followed" -> "Followed"
      [] st = "suspicious_activity" -> "Suspicious activity"
      [] st = "unsafe_area" -> "Unsafe area"
      [] st = "harassment" -> "Harassment"
      [] OTHER -> "Felt unsafe here"

\* get_dominant_reason: the types of the highest severity-weighted score.  max() keeps
\* the first of equal scores in the order the query returned the reports, which the
\* query does not fix: every type of the highest score is a possible answer.
get_dominant_reason(sigs, reports) ==
    LET valid == {sid \in reports : sigs[sid].is_valid}
        type_scores == [st \in SignalType |->
            SumOf([sid \in valid |-> sigs[sid].severity],
                  {sid \in valid : sigs[sid].signal_type = st})]
        present == {sigs[sid].signal_type : sid \in valid}
    IN  {_format_signal_type(st) : st \in
            {x \in present : \A y \in present : type_scores[y] <= type_scores[x]}}

\* PulseAggregationService.calculate_confidence
calculate_tile_confidence(sigs, reports) ==
    LET valid == {sid \in reports : sigs[sid].is_valid}
        n == Cardinality(valid)
        avg_trust == IF n > 0 THEN SumOf([sid \in valid |-> sigs[sid].trust_score], valid) \div n
                     ELSE 0
        count == IF n > 0 /\ avg_trust >= 800 THEN n + 2
                 ELSE IF n > 0 /\ avg_trust >= 600 THEN n + 1
                 ELSE n
    IN  IF count >= 10 THEN "high" ELSE IF count >= 2 THEN "medium" ELSE "low"

\* upsert_pulse at minute m
upsert_pulse(tile, m, intensity, dominant_reason, confidence, signal_count) ==
    [tile EXCEPT !.row = "live",
                 !.intensity = intensity,
                 !.radius = DEFAULT_RADIUS + (intensity * (MAX_RADIUS - DEFAULT_RADIUS)) \div 1000,
                 !.confidence_level = confidence,
                 !.dominant_reason = dominant_reason,
                 !.signal_count = signal_count,
                 !.expires_at = m + PULSE_EXPIRY_MINUTES,
                 !.last_updated = m,
                 !.aggregated_at = m,
                 !.aggregated_intensity = intensity]

\* PulseAggregationService.get_active_pulses: the filter on a row
IsActivePulse(tile, m) ==
    tile.row = "live" /\ (tile.expires_at = NULL \/ tile.expires_at > m)

\* --------------------------------------------------------------- PulseDecayService
DECAY_INTERVAL_MINUTES == 10
DECAY_DELETE_THRESHOLD == 50
LOW_INTENSITY == 100
LOW_INTENSITY_EXPIRY_MINUTES == 60

\* get_decay_factor_by_age in thousandths, the age in minutes:
\* 0.1 an hour is 5/3 a minute, 0.042 an hour 7/10, 0.007 an hour 7/60
get_decay_factor_by_age(last_updated, m) ==
    LET age == m - last_updated
    IN  IF age < 60 THEN 1000
        ELSE IF age < 360 THEN Max(500, 1000 - ((age - 60) * 5) \div 3)
        ELSE IF age < 720 THEN Max(250, 500 - ((age - 360) * 7) \div 10)
        ELSE IF age < 2880 THEN Max(20, 250 - ((age - 720) * 7) \div 60)
        ELSE 0

\* decay_pulses on one row that stays, with last_updated as the session wrote it
DecayedRow(tile, m, last_updated) ==
    LET intensity == (tile.intensity * get_decay_factor_by_age(tile.last_updated, m)) \div 1000
    IN  [tile EXCEPT !.intensity = intensity,
                     !.expires_at = IF intensity < LOW_INTENSITY
                                    THEN m + LOW_INTENSITY_EXPIRY_MINUTES
                                    ELSE m + PULSE_EXPIRY_MINUTES,
                     !.last_updated = last_updated]

\* The same without the column's onupdate: last_updated stays what aggregation wrote
decay_tile_keeping_last_updated(tile, m) ==
    IF ~IsActivePulse(tile, m) THEN tile
    ELSE IF get_decay_factor_by_age(tile.last_updated, m) <= DECAY_DELETE_THRESHOLD
    THEN [tile EXCEPT !.row = "absent"]
    ELSE DecayedRow(tile, m, tile.last_updated)

\* decay_pulses on one row.  The UPDATE sets intensity and expires_at; last_updated is
\* not in its SET clause, so the column's onupdate=func.now() (models.PulseTile) sets it.
decay_tile(tile, m) ==
    IF ~IsActivePulse(tile, m) THEN tile
    ELSE IF get_decay_factor_by_age(tile.last_updated, m) <= DECAY_DELETE_THRESHOLD
    THEN [tile EXCEPT !.row = "absent"]
    ELSE DecayedRow(tile, m, m)

decay_pulses(tiles, m) == [tile_id \in TileIds |-> decay_tile(tiles[tile_id], m)]

cleanup_expired_pulses(tiles, m) ==
    [tile_id \in TileIds |->
        IF /\ tiles[tile_id].row = "live"
           /\ tiles[tile_id].expires_at # NULL
           /\ tiles[tile_id].expires_at < m
        THEN [tiles[tile_id] EXCEPT !.row = "absent"]
        ELSE tiles[tile_id]]

\* main.pulse_decay_worker: k turns of its loop from minute m on, each a sleep of
\* DECAY_INTERVAL_MINUTES and then decay_pulses; cleanup_expired_pulses follows where
\* the minute of the hour is a multiple of five (cleanup)
worker_turn(tiles, m, cleanup) ==
    IF cleanup THEN cleanup_expired_pulses(decay_pulses(tiles, m), m)
    ELSE decay_pulses(tiles, m)

RECURSIVE pulse_decay_worker(_, _, _, _)
pulse_decay_worker(tiles, m, k, cleanup) ==
    IF k = 0 THEN tiles
    ELSE CHOOSE after \in {pulse_decay_worker(turned, m + DECAY_INTERVAL_MINUTES,
                                                k - 1, cleanup) :
                              turned \in {worker_turn(tiles, m + DECAY_INTERVAL_MINUTES,
                                                      cleanup)}} : TRUE

\* ======================================================================== actions
\* POST /report (routes/report.py report_safety_signal)
\* The answer to POST /report, with the request it answers
ReportResponse(sid, uid, signal_type, severity, code) ==
    [op |-> "report_safety_signal", sid |-> sid, uid |-> uid, code |-> code,
     signal_type |-> signal_type, severity |-> severity]

\* The handler without the validation of its request
report_safety_signal_unvalidated(sid, uid, signal_type, severity) ==
    /\ signals[sid].row = "absent"
    /\ signals' = [signals EXCEPT ![sid] =
           [AbsentSignal EXCEPT !.row = "live", !.user_id = uid,
               !.signal_type = signal_type,
               !.severity = severity, !.timestamp = now,
               !.trust_score = calculate_trust_score(device_activity[uid], TRUE),
               !.is_valid = TRUE,
               !.confidence_score = 500, !.severity_weight = 500]]
    /\ device_activity' = [device_activity EXCEPT ![uid] =
           [@ EXCEPT !.row = TRUE, !.submission_count = @ + 1, !.last_submission = now]]
    /\ resp' = ReportResponse(sid, uid, signal_type, severity, "ok")
    /\ UNCHANGED <<now, votes, uniqueConstraint, req>>

\* The body is first validated against schemas.ReportRequest (severity ge=1, le=5:
\* FastAPI answers 422 and the handler does not run), then the handler validates the
\* signal type (400) and writes the report and the device activity.
report_safety_signal(sid, uid, signal_type, severity) ==
    /\ signals[sid].row = "absent"
    /\ IF severity \notin 1..5
       THEN /\ resp' = ReportResponse(sid, uid, signal_type, severity, "422")
            /\ UNCHANGED <<signals, device_activity>>
       ELSE IF signal_type \notin SignalType
       THEN /\ resp' = ReportResponse(sid, uid, signal_type, severity, "400")
            /\ UNCHANGED <<signals, device_activity>>
       ELSE LET da == device_activity[uid]
                trust_score == calculate_trust_score(da, TRUE)
            IN  /\ signals' = [signals EXCEPT ![sid] =
                       [AbsentSignal EXCEPT !.row = "live", !.user_id = uid,
                           !.signal_type = signal_type,
                           !.severity = severity, !.timestamp = now,
                           !.trust_score = trust_score, !.is_valid = TRUE,
                           !.confidence_score = 500, !.severity_weight = 500]]
                /\ device_activity' = [device_activity EXCEPT ![uid] =
                       [da EXCEPT !.row = TRUE,
                                  !.submission_count = da.submission_count + 1,
                                  !.last_submission = now]]
                /\ resp' = ReportResponse(sid, uid, signal_type, severity, "ok")
    /\ UNCHANGED <<now, votes, uniqueConstraint, req>>

\* ReportLifecycleService.create_report, with the trust the Trust Scorer computed
create_report(sid, uid, signal_type, severity) ==
    /\ signals[sid].row = "absent"
    /\ signals' = [signals EXCEPT ![sid] =
          [AbsentSignal EXCEPT !.row = "live", !.user_id = uid,
              !.signal_type = signal_type,
              !.severity = severity, !.timestamp = now,
              !.trust_score = calculate_trust_score(device_activity[uid], TRUE),
              !.is_valid = TRUE, !.status = "pending",
              !.vote_window_expires_at = now + VOTE_WINDOW_HOURS,
              !.expires_at = now + EXPIRATION_HOURS,
              !.confidence_score = 500, !.severity_weight = severity * 200]]
    /\ resp' = Response("create_report", sid, uid, "ok")
    /\ UNCHANGED <<now, votes, device_activity, uniqueConstraint, req>>

\* POST /reports/{signal_id}/vote (routes/report.py vote_on_report), one request alone
vote_on_report(sid, uid, is_true) ==
    /\ IF ~Live(sid)
       THEN /\ resp' = Response("vote_on_report", sid, uid, "not_found")
            /\ UNCHANGED <<signals, votes>>
       ELSE IF VotesOf(votes, sid, uid) > 0
       THEN /\ resp' = Response("vote_on_report", sid, uid, "already_voted")
            /\ UNCHANGED <<signals, votes>>
       ELSE /\ votes' = votes (+) SetToBag({Vote(sid, uid, is_true)})
            /\ signals' = [signals EXCEPT ![sid] =
                   update_signal_trust_from_vote(signals[sid], is_true)]
            /\ resp' = Response("vote_on_report", sid, uid, "ok")
    /\ UNCHANGED <<now, device_activity, uniqueConstraint, req>>

\* DELETE /reports/{signal_id}/vote (routes/report.py remove_vote)
route_remove_vote(sid, uid) ==
    /\ IF VotesOf(votes, sid, uid) = 0 \/ ~Live(sid)
       THEN /\ resp' = Response("route_remove_vote", sid, uid, "not_found")
            /\ UNCHANGED <<signals, votes>>
       ELSE LET was_true == FirstVoteIsTrue(votes, sid, uid)
            IN  /\ signals' = [signals EXCEPT ![sid] =
                       revert_vote_from_signal(signals[sid], was_true)]
                /\ votes' = votes (-) SetToBag({Vote(sid, uid, was_true)})
                /\ resp' = Response("route_remove_vote", sid, uid, "ok")
    /\ UNCHANGED <<now, device_activity, uniqueConstraint, req>>

\* DELETE /reports/{signal_id} (routes/report.py delete_report)
delete_report(sid, uid) ==
    /\ IF ~Live(sid)
       THEN /\ resp' = Response("delete_report", sid, uid, "not_found")
            /\ UNCHANGED <<signals, votes>>
       ELSE IF signals[sid].user_id # uid
       THEN /\ resp' = Response("delete_report", sid, uid, "not_owner")
            /\ UNCHANGED <<signals, votes>>
       ELSE /\ votes' = [v \in {w \in DOMAIN votes : w.signal_id # sid} |-> votes[v]]
            /\ signals' = [signals EXCEPT ![sid] = GoneSignal]
            /\ resp' = Response("delete_report", sid, uid, "ok")
    /\ UNCHANGED <<now, device_activity, uniqueConstraint, req>>

\* ReportLifecycleService.process_vote.  The service and its TrustScoringService share
\* one session, so update_signal_trust_from_vote finds the row process_vote has
\* already incremented and increments it again.
process_vote(sid, uid, is_true) ==
    /\ Live(sid)
    /\ LET s == signals[sid]
           reason == check_vote_permission(votes, sid, s, uid, now)
       IN  IF reason # "ok"
           THEN /\ resp' = Response("process_vote", sid, uid, reason)
                /\ UNCHANGED <<signals, votes>>
           ELSE /\ votes' = votes (+) SetToBag({Vote(sid, uid, is_true)})
                /\ signals' = [signals EXCEPT ![sid] =
                       update_status_from_votes(
                           update_signal_trust_from_vote(IncrementVotes(s, is_true), is_true),
                           now)]
                /\ resp' = Response("process_vote", sid, uid, "ok")
    /\ UNCHANGED <<now, device_activity, uniqueConstraint, req>>

\* The status rollback without the test for verified or disputed
RevertStatusOfAny(s) ==
    IF s.true_votes + s.false_votes < MIN_VOTES_FOR_STATUS_UPDATE
    THEN [s EXCEPT !.status = "pending", !.verified_at = NULL, !.disputed_at = NULL]
    ELSE s

\* The status rollback of ReportLifecycleService.remove_vote
RevertStatus(s) ==
    IF s.status \in {"verified", "disputed"}
        /\ s.true_votes + s.false_votes < MIN_VOTES_FOR_STATUS_UPDATE
    THEN [s EXCEPT !.status = "pending", !.verified_at = NULL, !.disputed_at = NULL]
    ELSE s

\* ReportLifecycleService.remove_vote
service_remove_vote(sid, uid) ==
    /\ Live(sid)
    /\ IF VotesOf(votes, sid, uid) = 0
       THEN /\ resp' = Response("service_remove_vote", sid, uid, "not_found")
            /\ UNCHANGED <<signals, votes>>
       ELSE LET was_true == FirstVoteIsTrue(votes, sid, uid)
                s1 == revert_vote_from_signal(DecrementVotes(signals[sid], was_true), was_true)
                s2 == [s1 EXCEPT !.confidence_score =
                          calculate_confidence(s1, s1.true_votes, s1.false_votes, now)]
            IN  /\ votes' = votes (-) SetToBag({Vote(sid, uid, was_true)})
                /\ signals' = [signals EXCEPT ![sid] = RevertStatus(s2)]
                /\ resp' = Response("service_remove_vote", sid, uid, "ok")
    /\ UNCHANGED <<now, device_activity, uniqueConstraint, req>>

\* ReportLifecycleService.soft_delete_report
soft_delete_report(sid, uid) ==
    /\ Live(sid)
    /\ LET s == signals[sid]
           reason == check_delete_permission(s, uid, now)
       IN  IF reason # "ok"
           THEN /\ resp' = Response("soft_delete_report", sid, uid, reason)
                /\ UNCHANGED signals
           ELSE /\ signals' = [signals EXCEPT ![sid] =
                       [s EXCEPT !.status = "deleted", !.is_valid = FALSE,
                           !.deleted_by_owner = TRUE,
                           !.delete_cooldown_expires_at = now + DELETE_COOLDOWN_HOURS]]
                /\ resp' = Response("soft_delete_report", sid, uid, "ok")
    /\ UNCHANGED <<now, votes, device_activity, uniqueConstraint, req>>

\* TrustScoringService.update_anomaly_score(device_hash, is_spam=True) on a known device
update_anomaly_score(uid) ==
    /\ device_activity[uid].row
    /\ device_activity' = [device_activity EXCEPT ![uid].anomaly_score =
          Min(1000, device_activity[uid].anomaly_score + 300)]
    /\ resp' = Response("update_anomaly_score", "", uid, "ok")
    /\ UNCHANGED <<now, signals, votes, uniqueConstraint, req>>

\* ReportLifecycleService.check_abuse_flags(signal, signal.device_hash)
check_abuse_flags(sid) ==
    /\ Live(sid)
    /\ LET s == signals[sid]
           da == device_activity[s.user_id]
           is_suspicious == da.row /\ (da.submission_count > 20 \/ da.anomaly_score > 700)
       IN  IF is_suspicious
           THEN /\ signals' = [signals EXCEPT ![sid] =
                       [s EXCEPT !.abuse_flags = TRUE,
                                 !.trust_score = Max(200, (s.trust_score * 800) \div 1000)]]
                /\ resp' = Response("check_abuse_flags", sid, s.user_id, "trust_penalty_applied")
           ELSE /\ resp' = Response("check_abuse_flags", sid, s.user_id, "ok")
                /\ UNCHANGED signals
    /\ UNCHANGED <<now, votes, device_activity, uniqueConstraint, req>>

\* ReportLifecycleService.get_active_reports_for_status_update
NeedsStatusUpdate(s, t) ==
    /\ s.row = "live" /\ s.status = "pending" /\ s.is_valid
    /\ s.timestamp > t - VOTE_WINDOW_HOURS
    /\ s.vote_window_expires_at # NULL /\ s.vote_window_expires_at > t

\* ReportLifecycleService.update_status_batch: what it changes is committed only when
\* some report became verified or disputed
update_status_batch ==
    /\ LET updated == [sid \in AllSignalIds |->
                         IF NeedsStatusUpdate(signals[sid], now)
                         THEN update_status_from_votes(signals[sid], now)
                         ELSE signals[sid]]
           changed == {sid \in AllSignalIds : updated[sid].status # signals[sid].status}
       IN  IF changed # {}
           THEN /\ signals' = updated
                /\ resp' = Response("update_status_batch", "", "", "committed")
           ELSE /\ UNCHANGED signals
                /\ resp' = Response("update_status_batch", "", "", "ok")
    /\ UNCHANGED <<now, votes, device_activity, uniqueConstraint, req>>

\* ReportLifecycleService.get_reports_for_expiration
NeedsExpiration(s, t) ==
    /\ s.row = "live" /\ s.is_valid
    /\ \/ s.status = "pending" /\ s.vote_window_expires_at # NULL
            /\ s.vote_window_expires_at < t
       \/ s.expires_at # NULL /\ s.expires_at < t /\ s.status # "deleted"

\* What check_and_expire_report returns: True where it has written expired
check_and_expire_report_returns(s, t) ==
    \/ s.expires_at # NULL /\ t > s.expires_at /\ s.status # "deleted"
    \/ s.vote_window_expires_at # NULL /\ t > s.vote_window_expires_at
            /\ s.status = "pending"

\* ReportLifecycleService.expire_reports_batch: expired_count counts the reports for
\* which check_and_expire_report returned True, and the session commits when it is not 0
expire_reports_batch ==
    /\ LET expired == [sid \in AllSignalIds |->
                         IF NeedsExpiration(signals[sid], now)
                         THEN check_and_expire_report(signals[sid], now)
                         ELSE signals[sid]]
           expired_count == Cardinality({sid \in AllSignalIds :
                                /\ NeedsExpiration(signals[sid], now)
                                /\ check_and_expire_report_returns(signals[sid], now)})
       IN  /\ signals' = expired
           /\ resp' = [op |-> "expire_reports_batch", sid |-> "", uid |-> "",
                       code |-> IF expired_count > 0 THEN "committed" ELSE "ok",
                       expired_reports |-> expired_count]
    /\ UNCHANGED <<now, votes, device_activity, uniqueConstraint, req>>

\* ExpirationService.run_full_maintenance, as the expiration worker runs it.
\* process_expired_signals commits; get_decay_factor then subtracts the row's timestamp
\* from datetime.utcnow(): where the database returns the timestamp with its time zone
\* the subtraction raises TypeError and the decay is not written.
run_full_maintenance ==
    /\ LET expired == process_expired_signals(signals, now)
       IN  \/ /\ signals' = apply_decay_to_all_signals(expired, now)
              /\ resp' = Response("run_full_maintenance", "", "", "ok")
           \/ /\ \E sid \in AllSignalIds : expired[sid].row = "live" /\ expired[sid].is_valid
              /\ signals' = expired
              /\ resp' = Response("run_full_maintenance", "", "", "type_error")
    /\ UNCHANGED <<now, votes, device_activity, uniqueConstraint, req>>

\* Time passes
Tick(t) ==
    /\ t > now
    /\ now' = t
    /\ resp' = Response("tick", "", "", "ok")
    /\ UNCHANGED <<signals, votes, device_activity, uniqueConstraint, req>>

\* ============================================================ the sequential program
\* The threads lifespan starts (main.py 158-194), each in the try block of its loop
Workers == {"pulse-decay", "pulse-refresh", "expiration-cleanup"}

StartedWorker == [pc |-> "try", ticks |-> 0, last |-> "none"]

\* routes/pulse.py 26: cache = {}
NoCache == [stored |-> FALSE, data |-> {}, timestamp |-> 0]

NoRequest == [pc |-> "idle", sid |-> "", uid |-> "", is_true |-> FALSE,
              true_votes |-> 0, false_votes |-> 0, trust_score |-> 0]

InitTables ==
    /\ now = 0
    /\ signals = [sid \in AllSignalIds |-> AbsentSignal]
    /\ votes = EmptyBag
    /\ device_activity = [uid \in AllUsers |-> NoActivity]
    /\ resp = Response("init", "", "", "ok")
    /\ req = [q \in RequestIds |-> NoRequest]
    /\ steps = 0
    /\ quiet = FALSE
    /\ pulse_tiles = [tile_id \in TileIds |-> AbsentTile]
    /\ in_memory_requests = [client_id \in Clients |-> <<>>]
    /\ current_time = 0
    /\ spikes = {}
    /\ workers = [w \in Workers |-> StartedWorker]
    /\ cache = NoCache

\* The tables Base.metadata.create_all makes from app/models.py hold no unique
\* constraint on report_verifications
Init == InitTables /\ uniqueConstraint = FALSE /\ tile_reports = NoTileReports

tables == <<now, signals, votes, device_activity>>

\* A call that changes a report or a vote is counted, and MaxSteps of them are
\* explored.  A call that changes no table leaves only its response behind: whatever
\* follows it follows equally from the state before it, so the calls after it are
\* explored there.
Counted(call) ==
    /\ ~quiet
    /\ call
    /\ steps' = IF <<signals, votes>>' # <<signals, votes>> THEN steps + 1 ELSE steps
    /\ steps' <= MaxSteps
    /\ quiet' = (tables' = tables)
    /\ UNCHANGED aside

Next ==
    \/ \E sid \in SignalIds, uid \in Reporters, sev \in Severities,
       st \in ReportedTypes :
          Counted(report_safety_signal(sid, uid, st, sev))
    \/ \E sid \in SignalIds, uid \in Reporters, sev \in Severities,
       st \in ReportedTypes :
          Counted(create_report(sid, uid, st, sev))
    \/ \E sid \in SignalIds, uid \in Users, b \in BOOLEAN :
          Counted(vote_on_report(sid, uid, b))
    \/ \E sid \in SignalIds, uid \in Users : Counted(route_remove_vote(sid, uid))
    \/ \E sid \in SignalIds, uid \in Users : Counted(delete_report(sid, uid))
    \/ \E sid \in SignalIds, uid \in Users, b \in BOOLEAN :
          Counted(process_vote(sid, uid, b))
    \/ \E sid \in SignalIds, uid \in Users : Counted(service_remove_vote(sid, uid))
    \/ \E sid \in SignalIds, uid \in Users : Counted(soft_delete_report(sid, uid))
    \/ \E uid \in Reporters : Counted(update_anomaly_score(uid))
    \/ \E sid \in SignalIds : Counted(check_abuse_flags(sid))
    \/ Counted(update_status_batch)
    \/ Counted(expire_reports_batch)
    \/ Counted(run_full_maintenance)
    \/ \E t \in TimePoints : Counted(Tick(t))

Spec == Init /\ [][Next]_vars

\* ============================================ two vote requests in two worker processes
\* Each request runs vote_on_report in a session of its own, at READ COMMITTED: it
\* loads the report, looks for the voter's vote, and commits.

\* routes/report.py 381-392: the session loads the report row
vote_load(q, sid, uid, is_true) ==
    /\ req[q].pc = "idle"
    /\ IF ~Live(sid)
       THEN /\ resp' = Response("vote_on_report", sid, uid, "not_found")
            /\ UNCHANGED req
       ELSE /\ req' = [req EXCEPT ![q] =
                   [pc |-> "loaded", sid |-> sid, uid |-> uid, is_true |-> is_true,
                    true_votes |-> signals[sid].true_votes,
                    false_votes |-> signals[sid].false_votes,
                    trust_score |-> signals[sid].trust_score]]
            /\ UNCHANGED resp
    /\ UNCHANGED <<now, signals, votes, device_activity, uniqueConstraint, steps, quiet>>

\* routes/report.py 394-404: the votes committed so far are searched for the voter's
vote_check(q) ==
    /\ req[q].pc = "loaded"
    /\ IF VotesOf(votes, req[q].sid, req[q].uid) > 0
       THEN /\ resp' = Response("vote_on_report", req[q].sid, req[q].uid, "already_voted")
            /\ req' = [req EXCEPT ![q] = NoRequest]
       ELSE /\ req' = [req EXCEPT ![q].pc = "checked"]
            /\ UNCHANGED resp
    /\ UNCHANGED <<now, signals, votes, device_activity, uniqueConstraint, steps, quiet>>

\* routes/report.py 406-422: the vote is added, update_signal_trust_from_vote finds the
\* row the session loaded, changes its tally and trust, and commits: the INSERT, and an
\* UPDATE of the columns that changed.  With uq_user_signal_vote in the schema the
\* INSERT of a second vote of the pair fails and nothing is written.
vote_commit(q) ==
    /\ req[q].pc = "checked"
    /\ LET r == req[q]
           loaded == [signals[r.sid] EXCEPT !.true_votes = r.true_votes,
                                            !.false_votes = r.false_votes,
                                            !.trust_score = r.trust_score]
           updated == update_signal_trust_from_vote(loaded, r.is_true)
       IN  IF uniqueConstraint /\ VotesOf(votes, r.sid, r.uid) > 0
           THEN /\ resp' = Response("vote_on_report", r.sid, r.uid, "integrity_error")
                /\ UNCHANGED <<signals, votes>>
           ELSE /\ votes' = votes (+) SetToBag({Vote(r.sid, r.uid, r.is_true)})
                /\ signals' = [signals EXCEPT ![r.sid] =
                       IF r.is_true
                       THEN [@ EXCEPT !.true_votes = updated.true_votes,
                                      !.trust_score = updated.trust_score]
                       ELSE [@ EXCEPT !.false_votes = updated.false_votes,
                                      !.trust_score = updated.trust_score]]
                /\ resp' = Response("vote_on_report", r.sid, r.uid, "ok")
    /\ req' = [req EXCEPT ![q] = NoRequest]
    /\ UNCHANGED <<now, device_activity, uniqueConstraint, steps, quiet>>

Uncounted(call) == call /\ UNCHANGED <<steps, quiet>> /\ UNCHANGED aside

\* report_verifications as Base.metadata.create_all makes it (no unique constraint) or
\* as alembic revision 003 makes it (uq_user_signal_vote)
InitRace == InitTables /\ uniqueConstraint \in BOOLEAN /\ tile_reports = NoTileReports

NextRace ==
    \/ \E sid \in SignalIds, uid \in Reporters, sev \in Severities,
       st \in ReportedTypes :
          Uncounted(report_safety_signal(sid, uid, st, sev))
    \/ \E q \in RequestIds, sid \in SignalIds, uid \in RaceVoters, b \in BOOLEAN :
          vote_load(q, sid, uid, b) /\ UNCHANGED aside
    \/ \E q \in RequestIds : vote_check(q) /\ UNCHANGED aside
    \/ \E q \in RequestIds : vote_commit(q) /\ UNCHANGED aside

SpecRace == InitRace /\ [][NextRace]_vars

\* ======================================================= one report and a crowd of voters
\* The voters of Crowd are alike, so they vote in the order of VoterNames.
NextVoter(sid, uid) ==
    \E i \in 1..MaxVoters :
        /\ uid = VoterNames[i]
        /\ \A j \in 1..(i - 1) : VotesOf(votes, sid, VoterNames[j]) > 0
        /\ VotesOf(votes, sid, uid) = 0

NextVoters ==
    \/ \E sid \in SignalIds, uid \in Reporters, sev \in Severities,
       st \in ReportedTypes :
          Uncounted(create_report(sid, uid, st, sev))
    \/ \E sid \in SignalIds, uid \in Crowd, b \in BOOLEAN :
          NextVoter(sid, uid) /\ Uncounted(vote_on_report(sid, uid, b))
    \/ \E sid \in SignalIds, uid \in Crowd, b \in BOOLEAN :
          NextVoter(sid, uid) /\ Uncounted(process_vote(sid, uid, b))

SpecVoters == Init /\ [][NextVoters]_vars

\* ===================================================== one owner and their two reports
DeleteTimes == {0, 1, 2}

NextOwner ==
    \/ \E sid \in AllSignalIds, uid \in Reporters, sev \in Severities,
       st \in ReportedTypes :
          Uncounted(report_safety_signal(sid, uid, st, sev))
    \/ \E sid \in AllSignalIds, uid \in Reporters, sev \in Severities,
       st \in ReportedTypes :
          Uncounted(create_report(sid, uid, st, sev))
    \/ \E sid \in AllSignalIds, uid \in Reporters : Uncounted(soft_delete_report(sid, uid))
    \/ \E sid \in AllSignalIds, uid \in Reporters : Uncounted(delete_report(sid, uid))
    \/ \E t \in DeleteTimes : Uncounted(Tick(t))

SpecOwner == Init /\ [][NextOwner]_vars

\* ============================================ reports, aggregation and the decay worker
\* The decay worker runs through every hour up to MaxHour; reports are submitted and
\* deleted at the hours of ReportHours, and aggregation is observed at the hours of
\* AggregationHours (hour 11 is the last whose window holds a report of hour 0).
MaxHour == 51
ReportHours == {0, 30}
ServiceReportHours == {0}
AggregationHours == {0, 3, 11, 12, 30, 33}
SubmittedTypes == {"other", "invalid_type"}
SubmittedSeverities == {0, 1, 5, 6}

Minutes(hours) == hours * 60

Reasons == {_format_signal_type(st) : st \in SignalType}

\* PulseAggregationService.aggregate_pulse_tiles, as the refresh worker, the startup
\* event and the background task of POST /report run it
\* The answers get_dominant_reason can give for the tiles of one run
DominantReasons ==
    {reason \in [TileIds -> Reasons] :
        \A tile_id \in TileIds :
            LET reports == aggregate_reports_per_tile(signals, now, tile_id)
            IN  reports # {} => reason[tile_id] \in get_dominant_reason(signals, reports)}

\* A run that writes every tile that has reports, whatever its intensity
aggregate_every_tile ==
    /\ \E reason \in DominantReasons :
          pulse_tiles' = [tile_id \in TileIds |->
              LET reports == aggregate_reports_per_tile(signals, now, tile_id)
                  intensity == calculate_weighted_intensity(signals, now, reports)
              IN  IF reports = {}
                  THEN pulse_tiles[tile_id]
                  ELSE upsert_pulse(pulse_tiles[tile_id], Minutes(now), intensity,
                                    reason[tile_id],
                                    calculate_tile_confidence(signals, reports),
                                    Cardinality(reports))]
    /\ resp' = Response("aggregate_pulse_tiles", "", "", "ok")
    /\ UNCHANGED <<now, report_vars>>

aggregate_pulse_tiles ==
    /\ \E reason \in DominantReasons :
          pulse_tiles' = [tile_id \in TileIds |->
              LET reports == aggregate_reports_per_tile(signals, now, tile_id)
                  intensity == calculate_weighted_intensity(signals, now, reports)
              IN  IF reports = {} \/ intensity < MIN_PULSE_INTENSITY
                  THEN pulse_tiles[tile_id]
                  ELSE upsert_pulse(pulse_tiles[tile_id], Minutes(now), intensity,
                                    reason[tile_id],
                                    calculate_tile_confidence(signals, reports),
                                    Cardinality(reports))]
    /\ resp' = Response("aggregate_pulse_tiles", "", "", "ok")
    /\ UNCHANGED <<now, report_vars>>

\* An hour of main.pulse_decay_worker: six turns of its loop
pulse_decay_hour(cleanup) ==
    /\ now < MaxHour
    /\ now' = now + 1
    /\ pulse_tiles' = pulse_decay_worker(pulse_tiles, Minutes(now),
                                         60 \div DECAY_INTERVAL_MINUTES, cleanup)
    /\ resp' = Response("pulse_decay_worker", "", "", "ok")
    /\ UNCHANGED report_vars

\* An answer that carries the defaults of the response in place of the row's values
PulseActiveDefaults(tile_id, tile) ==
    [tile_id |-> tile_id, radius |-> 200, intensity |-> 0, confidence |-> "LOW",
     dominant_reason |-> tile.dominant_reason, last_updated |-> tile.last_updated]

\* What GET /pulses/active answers for a row (routes/pulse.py 92-107)
PulseActiveResponse(tile_id, tile) ==
    [tile_id |-> tile_id,
     radius |-> IF tile.radius = 0 THEN 200 ELSE tile.radius,
     intensity |-> tile.intensity,
     confidence |-> CASE tile.confidence_level = "high" -> "HIGH"
                      [] tile.confidence_level = "medium" -> "MEDIUM"
                      [] OTHER -> "LOW",
     dominant_reason |-> tile.dominant_reason,
     last_updated |-> tile.last_updated]

\* GET /pulses/active without a location filter
get_active_pulses ==
    /\ resp' = [op |-> "get_active_pulses", sid |-> "", uid |-> "", code |-> "ok",
                pulses |-> {PulseActiveResponse(tile_id, pulse_tiles[tile_id]) :
                              tile_id \in {x \in TileIds :
                                  IsActivePulse(pulse_tiles[x], Minutes(now))}}]
    /\ UNCHANGED <<now, pulse_tiles, report_vars>>

NextPulse ==
    \/ \E sid \in AllSignalIds, uid \in Reporters, st \in SubmittedTypes,
          sev \in SubmittedSeverities :
          now \in ReportHours /\ Uncounted(report_safety_signal(sid, uid, st, sev))
    \/ \E uid \in Reporters, st \in ReportedTypes, sev \in Severities :
          now \in ServiceReportHours /\ Uncounted(create_report("s2", uid, st, sev))
    \/ \E sid \in AllSignalIds, uid \in Reporters :
          now \in ReportHours /\ Uncounted(soft_delete_report(sid, uid))
    \/ now \in AggregationHours /\ aggregate_pulse_tiles
    \/ \E cleanup \in BOOLEAN : pulse_decay_hour(cleanup)
    \/ get_active_pulses

SpecPulse == Init /\ [][NextPulse]_vars

\* ============================================================== spike detection
SPIKE_REPORT_COUNT == 10
SPIKE_TIME_WINDOW_MINUTES == 30

\* The filter of both queries of detect_spikes but for is_valid: timestamp > cutoff_time
InSpikeWindow(age) == age < SPIKE_TIME_WINDOW_MINUTES

\* func.count(SafetySignal.id) of a geohash without the filter is_valid == True
count_all_in_window(reports) ==
    SumOf([age \in ReportAges |-> reports.valid[age]], {age \in ReportAges : InSpikeWindow(age)})
        + reports.invalid

\* func.count(SafetySignal.id) of a geohash: its valid reports in the window
count_in_window(reports) ==
    SumOf([age \in ReportAges |-> reports.valid[age]], {age \in ReportAges : InSpikeWindow(age)})

\* max(timestamps) - min(timestamps) of the signals of a spike, in minutes
time_range(reports) ==
    LET ages == {age \in ReportAges : InSpikeWindow(age) /\ reports.valid[age] > 0}
    IN  IF ages = {} THEN 0
        ELSE (CHOOSE a \in ages : \A b \in ages : b <= a)
                - (CHOOSE a \in ages : \A b \in ages : a <= b)

\* PatternDetectionService.detect_spikes: one entry for each row of the GROUP BY
\* geohash ... HAVING count >= SPIKE_REPORT_COUNT
detect_spikes_of(all_reports) ==
    {[geohash |-> geohash,
      report_count |-> count_in_window(all_reports[geohash]),
      spike_intensity |-> Min(1000, (count_in_window(all_reports[geohash]) * 1000) \div 20),
      time_window_minutes |-> SPIKE_TIME_WINDOW_MINUTES,
      actual_time_range_minutes |-> time_range(all_reports[geohash])] :
        geohash \in {g \in Geohashes :
                        count_in_window(all_reports[g]) >= SPIKE_REPORT_COUNT}}

detect_spikes ==
    /\ spikes' = detect_spikes_of(tile_reports)
    /\ resp' = Response("detect_spikes", "", "", "ok")
    /\ UNCHANGED <<now, signals, votes, device_activity, uniqueConstraint, req, steps,
                   quiet, pulse_tiles, rate_vars, tile_reports, workers, cache>>

\* The reports stored when detection runs
InitSpike ==
    /\ InitTables
    /\ uniqueConstraint = FALSE
    /\ tile_reports \in [Geohashes -> [valid : [ReportAges -> SlotCounts],
                                        invalid : InvalidCounts]]

NextSpike == detect_spikes

SpecSpike == InitSpike /\ [][NextSpike]_vars

\* ================================================================ the rate limiter
\* One device (one X-Device-Hash) sends requests to /api/v1/report, with or without an
\* Authorization header; the clock of the middleware is observed at RateTimes.

ANONYMOUS_LIMIT == 60
AUTHENTICATED_LIMIT == 200
WINDOW == 60

\* rate_limiter.py 61-64: the requests of the client that are younger than WINDOW
RecentRequests(client_id) ==
    SelectSeq(in_memory_requests[client_id], LAMBDA t : current_time - t < WINDOW)

\* The paths of the requests: one that is rate limited and one of the auth router
Paths == {"/report", "/auth/login"}

\* rate_limiter.py 34-40: the paths dispatch hands on without counting; "/auth/" in
\* path holds for the paths of the auth router
SkipsRateLimit(path) ==
    path \in {"/health", "/docs", "/openapi.json", "/"} \/ path \in {"/auth/login"}

\* The answer of the middleware, with the request it answers
DispatchResponse(client_id, authorized, path, code) ==
    [op |-> "dispatch", sid |-> "", uid |-> client_id, code |-> code,
     authorized |-> authorized, path |-> path]

\* A middleware that hands every request on
dispatch_unlimited(client_id, authorized, path) ==
    /\ in_memory_requests' = [in_memory_requests EXCEPT ![client_id] =
           Append(RecentRequests(client_id), current_time)]
    /\ resp' = DispatchResponse(client_id, authorized, path, "call_next")
    /\ UNCHANGED <<now, signals, votes, device_activity, uniqueConstraint, req, steps,
                   quiet, pulse_tiles, current_time, spike_vars, workers, cache>>

\* RateLimiterMiddleware.dispatch
dispatch(client_id, authorized, path) ==
    LET limit == IF authorized THEN AUTHENTICATED_LIMIT ELSE ANONYMOUS_LIMIT
        recent == RecentRequests(client_id)
    IN  /\ IF SkipsRateLimit(path)
           THEN /\ resp' = DispatchResponse(client_id, authorized, path, "call_next")
                /\ UNCHANGED in_memory_requests
           ELSE IF Len(recent) >= limit
           THEN /\ in_memory_requests' = [in_memory_requests EXCEPT ![client_id] = recent]
                /\ resp' = DispatchResponse(client_id, authorized, path, "429")
           ELSE /\ in_memory_requests' =
                      [in_memory_requests EXCEPT ![client_id] = Append(recent, current_time)]
                /\ resp' = DispatchResponse(client_id, authorized, path, "call_next")
        /\ UNCHANGED <<now, signals, votes, device_activity, uniqueConstraint, req, steps,
                       quiet, pulse_tiles, current_time, spike_vars, workers, cache>>

\* time.time() moves on
TickRate(t) ==
    /\ t > current_time
    /\ current_time' = t
    /\ resp' = Response("tick", "", "", "ok")
    /\ UNCHANGED <<now, signals, votes, device_activity, uniqueConstraint, req, steps,
                   quiet, pulse_tiles, in_memory_requests, spike_vars, workers, cache>>

NextRate ==
    \/ \E client_id \in Clients, authorized \in BOOLEAN, path \in Paths :
          dispatch(client_id, authorized, path)
    \/ \E t \in RateTimes : TickRate(t)

SpecRate == Init /\ [][NextRate]_vars

\* ================================================================== properties
VoteOps == {"vote_on_report", "process_vote"}
RemoveOps == {"route_remove_vote", "service_remove_vote"}
DeleteOps == {"delete_report", "soft_delete_report"}

TotalVotes(s) == s.true_votes + s.false_votes

\* C1: under every interleaving of two concurrent vote requests of one voter on one
\* report, at most one succeeds: no (report, voter) pair ever has more than one vote.
C1_OneVotePerPair ==
    \A sid \in SignalIds, uid \in AllUsers : VotesOf(votes, sid, uid) <= 1

\* C2: a vote by a voter who already has a vote on the report is rejected as
\* already voted, and the report (tallies, trust score, status) and the votes are
\* left as they were.
C2_SecondVoteRejected ==
    [][\A sid \in SignalIds, uid \in AllUsers :
          (/\ resp'.op \in VoteOps /\ resp'.sid = sid /\ resp'.uid = uid
           /\ VotesOf(votes, sid, uid) > 0)
          => (/\ resp'.code = "already_voted"
              /\ signals' = signals
              /\ votes' = votes)]_vars

\* A second vote was rejected by the service, and one by the route, with the voter's
\* first vote in the table
C2_Witness ==
    /\ resp.op \in VoteOps
    /\ resp.code = "already_voted"
    /\ VotesOf(votes, resp.sid, resp.uid) = 1
    /\ TotalVotes(signals[resp.sid]) > 0

\* C3: a vote by the owner of a report on that report is rejected and leaves the
\* report and the votes unchanged; no vote of a report's owner on it ever exists.
C3_OwnerVoteRejected ==
    [][\A sid \in SignalIds :
          (/\ resp'.op \in VoteOps /\ resp'.sid = sid
           /\ Live(sid) /\ signals[sid].user_id = resp'.uid)
          => (/\ resp'.code # "ok"
              /\ signals' = signals
              /\ votes' = votes
              /\ VotesOf(votes', sid, signals[sid].user_id) = 0)]_vars

\* C4: a vote on a report that is deleted or expired, or whose vote window has
\* elapsed, is rejected and leaves the report and the votes unchanged.
C4_ClosedReportRejectsVotes ==
    [][\A sid \in SignalIds :
          (/\ resp'.op \in VoteOps /\ resp'.sid = sid /\ Live(sid)
           /\ \/ signals[sid].status \in {"deleted", "expired"}
              \/ /\ signals[sid].vote_window_expires_at # NULL
                 /\ now > signals[sid].vote_window_expires_at)
          => (/\ resp'.code # "ok"
              /\ signals' = signals
              /\ votes' = votes)]_vars

\* C5: every report has 0.2 <= trust_score <= 1.0 and 0.0 <= confidence_score <= 1.0,
\* and tallies that are not negative, after any sequence of creations, votes, vote
\* removals, abuse checks and maintenance runs.
C5_ScoresBounded ==
    \A sid \in SignalIds :
        Live(sid) =>
            /\ signals[sid].trust_score >= 200 /\ signals[sid].trust_score <= 1000
            /\ signals[sid].confidence_score >= 0 /\ signals[sid].confidence_score <= 1000
            /\ signals[sid].true_votes >= 0
            /\ signals[sid].false_votes >= 0

\* The service removed a vote the route had counted once: the tally it decrements
\* twice stopped at 0, with another vote still in the table
C5_Witness ==
    /\ resp.op = "service_remove_vote" /\ resp.code = "ok"
    /\ Live(resp.sid)
    /\ TotalVotes(signals[resp.sid]) = 0
    /\ votes # EmptyBag

\* C6: casting a vote and then removing it, with nothing in between, restores the
\* report's tallies, trust score (within the rounding of the two steps) and confidence
\* score, whatever the report's state and the vote.
C6_CastThenRemoveRestores ==
    \A sid \in SignalIds, b \in BOOLEAN :
        Live(sid) =>
            LET s == signals[sid]
                removed == revert_vote_from_signal(update_signal_trust_from_vote(s, b), b)
            IN  /\ removed.true_votes = s.true_votes
                /\ removed.false_votes = s.false_votes
                /\ removed.confidence_score = s.confidence_score
                /\ removed.trust_score - s.trust_score <= 2
                /\ s.trust_score - removed.trust_score <= 2

\* C7 as stated: process_vote moves a report out of pending only with a total of at
\* least 3 votes; with >= 3 votes and confidence >= 0.7 a pending report becomes
\* verified, with >= 3 votes and a downvote ratio >= 0.3 it becomes disputed, and with
\* fewer than 3 votes its status does not change.
C7_StatusFromVotesAsStated ==
    [][\A sid \in SignalIds :
          (resp'.op = "process_vote" /\ resp'.sid = sid /\ resp'.code = "ok")
          => LET s == signals[sid]
                 s2 == signals'[sid]
                 enough == TotalVotes(s2) >= 3
                 downvoted == s2.false_votes * 1000 >= 300 * TotalVotes(s2)
             IN  /\ s2.status # s.status => s.status = "pending" /\ enough
                 /\ ~enough => s2.status = s.status
                 /\ (s.status = "pending" /\ enough /\ s2.confidence_score >= 700)
                        => s2.status = "verified"
                 /\ (s.status = "pending" /\ enough /\ downvoted)
                        => s2.status = "disputed"]_vars

\* C7: process_vote moves a report out of pending only with a total of at least 3
\* votes; with >= 3 votes and confidence >= 0.7 a pending report becomes verified,
\* with >= 3 votes, a downvote ratio >= 0.3 and confidence < 0.7 it becomes disputed,
\* and with fewer than 3 votes its status does not change.
C7_StatusFromVotes ==
    [][\A sid \in SignalIds :
          (resp'.op = "process_vote" /\ resp'.sid = sid /\ resp'.code = "ok")
          => LET s == signals[sid]
                 s2 == signals'[sid]
                 enough == TotalVotes(s2) >= 3
                 downvoted == s2.false_votes * 1000 >= 300 * TotalVotes(s2)
             IN  /\ s2.status # s.status => s.status = "pending" /\ enough
                 /\ ~enough => s2.status = s.status
                 /\ (s.status = "pending" /\ enough /\ s2.confidence_score >= 700)
                        => s2.status = "verified"
                 /\ (s.status = "pending" /\ enough /\ downvoted
                        /\ s2.confidence_score < 700)
                        => s2.status = "disputed"]_vars

\* process_vote verified a report whose downvote ratio is at least 0.3
C7_Witness ==
    /\ resp.op = "process_vote" /\ resp.code = "ok"
    /\ Live(resp.sid)
    /\ signals[resp.sid].status = "verified"
    /\ signals[resp.sid].verified_at = now
    /\ signals[resp.sid].confidence_score >= 700
    /\ signals[resp.sid].false_votes * 1000 >= 300 * TotalVotes(signals[resp.sid])

\* C8: a vote removal that leaves a verified or disputed report with fewer than 3
\* votes makes it pending and clears verified_at and disputed_at; one that leaves it
\* with 3 votes or more does not change its status.
C8_RemovalRevertsStatus ==
    [][\A sid \in SignalIds :
          (/\ resp'.op \in RemoveOps /\ resp'.sid = sid /\ resp'.code = "ok"
           /\ signals[sid].status \in {"verified", "disputed"})
          => IF TotalVotes(signals'[sid]) < 3
             THEN /\ signals'[sid].status = "pending"
                  /\ signals'[sid].verified_at = NULL
                  /\ signals'[sid].disputed_at = NULL
             ELSE signals'[sid].status = signals[sid].status]_vars

\* C9: a report whose status is deleted keeps that status for as long as it is
\* stored: no vote, vote removal, status batch, expiration sweep, maintenance run or
\* repeated delete gives it another status.
C9_DeletedStaysDeleted ==
    [][\A sid \in SignalIds :
          (Live(sid) /\ signals[sid].status = "deleted" /\ signals'[sid].row = "live")
          => signals'[sid].status = "deleted"]_vars

\* The service removed a vote from a deleted report that is left with fewer than 3
C9_Witness ==
    /\ resp.op = "service_remove_vote" /\ resp.code = "ok"
    /\ Live(resp.sid)
    /\ signals[resp.sid].status = "deleted"
    /\ TotalVotes(signals[resp.sid]) < 3

\* C10: a delete by someone who is not the report's owner, or of a verified report
\* with confidence_score >= 0.7, is denied and leaves the report and its votes
\* unchanged.
C10_ProtectedReportNotDeleted ==
    [][\A sid \in SignalIds :
          (/\ resp'.op \in DeleteOps /\ resp'.sid = sid /\ Live(sid)
           /\ \/ signals[sid].user_id # resp'.uid
              \/ /\ signals[sid].status = "verified"
                 /\ signals[sid].confidence_score >= 700)
          => (/\ resp'.code # "ok"
              /\ signals' = signals
              /\ votes' = votes)]_vars

\* C11: after an owner's successful delete of one report, a delete by the same owner
\* of another of their reports within the delete cooldown (1 hour) is denied.
C11_DeleteCooldown ==
    [][\A sid \in AllSignalIds, other \in AllSignalIds :
          (/\ resp'.op \in DeleteOps /\ resp'.sid = sid /\ Live(sid)
           /\ other # sid /\ Live(other)
           /\ signals[other].status = "deleted" /\ signals[other].deleted_by_owner
           /\ signals[other].user_id = resp'.uid
           /\ signals[sid].user_id = resp'.uid
           /\ now < signals[other].delete_cooldown_expires_at)
          => resp'.code # "ok"]_vars

\* C12: after a successful delete the report's row is still stored, with status
\* deleted and is_valid false, and no vote of that report remains.
C12_DeleteKeepsRecordDropsVotes ==
    [][\A sid \in AllSignalIds :
          (resp'.op \in DeleteOps /\ resp'.sid = sid /\ resp'.code = "ok")
          => (/\ signals'[sid].row = "live"
              /\ signals'[sid].status = "deleted"
              /\ ~signals'[sid].is_valid
              /\ \A uid \in AllUsers : VotesOf(votes', sid, uid) = 0)]_vars

\* A report an aggregation run at the present hour may count: stored, valid, not
\* deleted, and not past its expires_at
Countable(sid) ==
    /\ Live(sid)
    /\ signals[sid].is_valid
    /\ signals[sid].status # "deleted"
    /\ ~(signals[sid].expires_at # NULL /\ signals[sid].expires_at < now)

\* C13: an aggregation run counts no report that is past its expires_at, deleted or
\* invalid: every tile the run writes has the signal_count, intensity and dominant
\* reason of a set of reports none of which is such a report.
C13_AggregationCountsNoStaleReport ==
    [][resp'.op = "aggregate_pulse_tiles" =>
          \A tile_id \in TileIds :
              \/ pulse_tiles'[tile_id] = pulse_tiles[tile_id]
              \/ \E counted \in SUBSET {sid \in AllSignalIds : Countable(sid)} :
                    /\ pulse_tiles'[tile_id].row = "live"
                    /\ pulse_tiles'[tile_id].signal_count = Cardinality(counted)
                    /\ pulse_tiles'[tile_id].intensity =
                          calculate_weighted_intensity(signals, now, counted)
                    /\ pulse_tiles'[tile_id].dominant_reason \in
                          get_dominant_reason(signals, counted)]_vars

\* An aggregation run has written a tile while a valid report past its expires_at is stored
C13_Witness ==
    /\ resp.op = "aggregate_pulse_tiles"
    /\ \E tile_id \in TileIds :
          /\ pulse_tiles[tile_id].row = "live"
          /\ pulse_tiles[tile_id].aggregated_at = Minutes(now)
    /\ \E sid \in AllSignalIds :
          /\ Live(sid) /\ signals[sid].is_valid
          /\ signals[sid].expires_at # NULL /\ signals[sid].expires_at < now

\* The periodic expiration sweep: ExpirationService.run_full_maintenance, which
\* main.expiration_cleanup_worker runs, and ReportLifecycleService.expire_reports_batch
SweepOps == {"run_full_maintenance", "expire_reports_batch"}

\* C14: after the periodic expiration sweep has run, every stored report that is not
\* deleted and is past its expires_at, and every pending report whose vote window has
\* elapsed, has status expired.
C14_SweepExpiresStaleReports ==
    [][resp'.op \in SweepOps =>
          \A sid \in AllSignalIds :
              LET s == signals'[sid]
              IN  (/\ s.row = "live"
                   /\ \/ /\ s.status # "deleted"
                         /\ s.expires_at # NULL
                         /\ now' > s.expires_at
                      \/ /\ s.status = "pending"
                         /\ s.vote_window_expires_at # NULL
                         /\ now' > s.vote_window_expires_at)
                  => s.status = "expired"]_vars

\* C15: with the decay worker on its schedule, a tile whose last aggregation update is
\* 50 hours or more in the past no longer exists after a decay run.
C15_UntouchedTileDeleted ==
    [][resp'.op = "pulse_decay_worker" =>
          \A tile_id \in TileIds :
              (/\ pulse_tiles[tile_id].row = "live"
               /\ Minutes(now') - pulse_tiles[tile_id].aggregated_at >= Minutes(50))
              => pulse_tiles'[tile_id].row = "absent"]_vars

Malformed(r) == r.signal_type \notin SignalType \/ r.severity \notin 1..5

C18_RateLimitedByFifteenth ==
    [][\A client_id \in Clients :
          (/\ resp'.op = "dispatch" /\ resp'.uid = client_id
           /\ Len(RecentRequests(client_id)) >= 14)
          => resp'.code = "429"]_vars

\* The valid reports of a geohash that were created within the trailing 30 minutes
RecentValidReports(geohash) ==
    SumOf([age \in ReportAges |-> tile_reports[geohash].valid[age]],
          {age \in ReportAges : age < 30})

\* C19: after spike detection, a tile with at least 10 valid reports of the trailing
\* 30 minutes is reported exactly once, with report_count the number of those reports
\* and actual_time_range_minutes at most 30; a tile with fewer is not reported.
C19_SpikesAtTenReports ==
    resp.op = "detect_spikes" =>
        \A geohash \in Geohashes :
            LET entries == {sp \in spikes : sp.geohash = geohash}
            IN  IF RecentValidReports(geohash) >= 10
                THEN /\ Cardinality(entries) = 1
                     /\ \A sp \in entries :
                           /\ sp.report_count = RecentValidReports(geohash)
                           /\ sp.actual_time_range_minutes <= 30
                ELSE entries = {}

\* Detection has run with one tile at exactly 10 recent valid reports spread over 20
\* minutes and another tile below 10 that holds invalid reports as well
C19_Witness ==
    /\ resp.op = "detect_spikes"
    /\ \E geohash \in Geohashes :
          /\ RecentValidReports(geohash) = 10
          /\ tile_reports[geohash].valid[0] > 0
          /\ tile_reports[geohash].valid[20] > 0
          /\ \E sp \in spikes : sp.geohash = geohash /\ sp.actual_time_range_minutes = 20
    /\ \E geohash \in Geohashes :
          /\ RecentValidReports(geohash) < 10
          /\ RecentValidReports(geohash) + tile_reports[geohash].invalid >= 10

process_vote_trust_commit(q, sid, uid, is_true) ==
    /\ req[q].pc = "idle"
    /\ Live(sid)
    /\ LET s == signals[sid]
           reason == check_vote_permission(votes, sid, s, uid, now)
       IN  IF reason # "ok"
           THEN /\ resp' = Response("process_vote", sid, uid, reason)
                /\ UNCHANGED <<signals, votes, req>>
           ELSE /\ votes' = votes (+) SetToBag({Vote(sid, uid, is_true)})
                /\ signals' = [signals EXCEPT ![sid] =
                       update_signal_trust_from_vote(IncrementVotes(s, is_true), is_true)]
                /\ req' = [req EXCEPT ![q] = [NoRequest EXCEPT
                       !.pc = "trust_committed", !.sid = sid, !.uid = uid,
                       !.is_true = is_true]]
                /\ UNCHANGED resp
    /\ UNCHANGED <<now, device_activity, uniqueConstraint>>

\* report_lifecycle.py 295-300: update_status_from_votes on the row the commit
\* expired and the session reloads, and the second db.commit()
process_vote_status_commit(q) ==
    /\ req[q].pc = "trust_committed"
    /\ signals' = [signals EXCEPT ![req[q].sid] = update_status_from_votes(@, now)]
    /\ resp' = Response("process_vote", req[q].sid, req[q].uid, "ok")
    /\ req' = [req EXCEPT ![q] = NoRequest]
    /\ UNCHANGED <<now, votes, device_activity, uniqueConstraint>>

\* report_lifecycle.py 302-336: the vote is found, the tally decremented, the vote
\* deleted, and revert_vote_from_signal with its db.commit()
remove_vote_trust_commit(q, sid, uid) ==
    /\ req[q].pc = "idle"
    /\ Live(sid)
    /\ IF VotesOf(votes, sid, uid) = 0
       THEN /\ resp' = Response("service_remove_vote", sid, uid, "not_found")
            /\ UNCHANGED <<signals, votes, req>>
       ELSE LET was_true == FirstVoteIsTrue(votes, sid, uid)
            IN  /\ votes' = votes (-) SetToBag({Vote(sid, uid, was_true)})
                /\ signals' = [signals EXCEPT ![sid] =
                       revert_vote_from_signal(DecrementVotes(@, was_true), was_true)]
                /\ req' = [req EXCEPT ![q] = [NoRequest EXCEPT
                       !.pc = "revert_committed", !.sid = sid, !.uid = uid,
                       !.is_true = was_true]]
                /\ UNCHANGED resp
    /\ UNCHANGED <<now, device_activity, uniqueConstraint>>

\* The confidence and status a report's tallies and trust call for after a removal
\* (report_lifecycle.py 338-351)
RemovalStatusUpdate(s, t) ==
    RevertStatus([s EXCEPT !.confidence_score =
                     calculate_confidence(s, s.true_votes, s.false_votes, t)])

\* report_lifecycle.py 338-356: confidence_score, the status rollback, and the
\* second db.commit()
remove_vote_status_commit(q) ==
    /\ req[q].pc = "revert_committed"
    /\ signals' = [signals EXCEPT ![req[q].sid] = RemovalStatusUpdate(@, now)]
    /\ resp' = Response("service_remove_vote", req[q].sid, req[q].uid, "ok")
    /\ req' = [req EXCEPT ![q] = NoRequest]
    /\ UNCHANGED <<now, votes, device_activity, uniqueConstraint>>

\* The process stops after the first commit: the session is lost with whatever it
\* had not committed, the tables keep what was committed
stop_after_trust_commit(q) ==
    /\ req[q].pc \in {"trust_committed", "revert_committed"}
    /\ resp' = Response("stopped", req[q].sid, req[q].uid, req[q].pc)
    /\ req' = [req EXCEPT ![q] = NoRequest]
    /\ UNCHANGED <<now, signals, votes, device_activity, uniqueConstraint>>

\* One request at a time
CrashRequests == {"q1"}

\* MaxSteps requests are explored
Begun(call) ==
    /\ steps < MaxSteps
    /\ call
    /\ steps' = steps + 1
    /\ UNCHANGED quiet
    /\ UNCHANGED aside

NextCrash ==
    \/ \E sid \in SignalIds, uid \in Reporters, sev \in Severities,
       st \in ReportedTypes :
          Uncounted(create_report(sid, uid, st, sev))
    \/ \E q \in CrashRequests, sid \in SignalIds, uid \in Users, b \in BOOLEAN :
          Begun(process_vote_trust_commit(q, sid, uid, b))
    \/ \E q \in CrashRequests : Uncounted(process_vote_status_commit(q))
    \/ \E q \in CrashRequests, sid \in SignalIds, uid \in Users :
          Begun(remove_vote_trust_commit(q, sid, uid))
    \/ \E q \in CrashRequests : Uncounted(remove_vote_status_commit(q))
    \/ \E q \in CrashRequests : Uncounted(stop_after_trust_commit(q))
    \/ \E t \in TimePoints : req["q1"].pc = "idle" /\ Uncounted(Tick(t))

SpecCrash == Init /\ [][NextCrash]_vars

\* C21: vote cast and vote removal are atomic.  When a request stops inside
\* process_vote or remove_vote, the committed report row that already shows the
\* vote's tally and trust change also shows the confidence_score and status that go
\* with it: applying the request's status update to the committed row changes nothing.
C21_VoteAtomicUnderStop ==
    [][(resp'.op = "stopped" /\ req' # req) =>
          LET s == signals'[resp'.sid]
          IN  IF resp'.code = "trust_committed"
              THEN s = update_status_from_votes(s, now')
              ELSE s = RemovalStatusUpdate(s, now')]_vars

\* ============================================================ the background threads
\* pulse_decay_worker, pulse_refresh_worker and expiration_cleanup_worker (main.py
\* 44-154) are the same loop around three service calls:
\*     while True:
\*         try: db = SessionLocal(); try: <service call> finally: db.close()
\*         except Exception as e: print(...)
\*         time.sleep(...)
\* What the service call does to the tables is modelled above (worker_turn,
\* aggregate_pulse_tiles, run_full_maintenance); here a tick is what the loop sees of
\* it: it returns, or it raises (a database error at any call, the TypeError of
\* run_full_maintenance).

\* What the loops never write
worker_rest == <<now, signals, votes, device_activity, uniqueConstraint, req, steps,
                 quiet, pulse_tiles, rate_vars, spike_vars, cache>>

\* What a tick's try block ends with
TickOutcomes == {"returned", "Exception"}

\* A handler that catches nothing
except_nothing(outcome) == FALSE

\* except Exception as e (main.py 79, 119, 150)
except_Exception(outcome) == outcome = "Exception"

\* The try block of the loop runs to its end or to a raise
worker_try(w, outcome) ==
    /\ workers[w].pc = "try"
    /\ workers' = [workers EXCEPT ![w] =
           [pc |-> IF outcome = "returned" THEN "sleep"
                   ELSE IF except_Exception(outcome) THEN "except"
                   ELSE "dead",
            ticks |-> (workers[w].ticks + 1) % 2,
            last |-> outcome]]
    /\ resp' = Response("worker_try", "", w, outcome)
    /\ UNCHANGED worker_rest

\* The handler prints the error
worker_except(w) ==
    /\ workers[w].pc = "except"
    /\ workers' = [workers EXCEPT ![w].pc = "sleep"]
    /\ resp' = Response("worker_except", "", w, "ok")
    /\ UNCHANGED worker_rest

\* time.sleep returns and the loop starts over
worker_sleep(w) ==
    /\ workers[w].pc = "sleep"
    /\ workers' = [workers EXCEPT ![w].pc = "try"]
    /\ resp' = Response("worker_sleep", "", w, "ok")
    /\ UNCHANGED worker_rest

worker_step(w) ==
    \/ \E outcome \in TickOutcomes : worker_try(w, outcome)
    \/ worker_except(w)
    \/ worker_sleep(w)

NextWorkers ==
    \/ \E w \in Workers, outcome \in TickOutcomes :
          worker_try(w, outcome)
    \/ \E w \in Workers : worker_except(w)
    \/ \E w \in Workers : worker_sleep(w)

\* Each thread is scheduled again and again, its sleep ends and its service call
\* returns or raises
SpecWorkers ==
    /\ Init
    /\ [][NextWorkers]_vars
    /\ \A w \in Workers : WF_vars(worker_step(w))

\* C22: a tick that raises does not stop its worker, and no worker stops another.
\* Every worker begins ticks for ever (the parity of its tick count keeps changing),
\* and a worker in its error handler reaches its next tick.
C22_WorkersTickForever ==
    \A w \in Workers :
        /\ []<>(workers[w].ticks = 0)
        /\ []<>(workers[w].ticks = 1)
        /\ (workers[w].pc = "except") ~> (workers[w].pc = "try")

\* One worker is in the tick after a tick of its own that raised, while another
\* worker's latest tick returned
C22_Witness ==
    \E w, v \in Workers :
        /\ w # v
        /\ workers[w].pc = "try" /\ workers[w].last = "Exception"
        /\ workers[v].last = "returned"

\* The voters whose vote on a report says is_true
VotersOf(vs, sid, is_true) == {uid \in AllUsers : CopiesIn(Vote(sid, uid, is_true), vs) > 0}

\* C23: when different voters vote on one report concurrently and all succeed, no
\* update is lost: once the requests are done, the report's tallies are the numbers
\* of its true and false vote records.
C23_NoLostTallyUpdate ==
    \A sid \in SignalIds :
        (/\ Live(sid)
         /\ \A q \in RequestIds : req[q].pc = "idle"
         /\ \A uid \in AllUsers : VotesOf(votes, sid, uid) <= 1)
        => /\ signals[sid].true_votes = Cardinality(VotersOf(votes, sid, TRUE))
           /\ signals[sid].false_votes = Cardinality(VotersOf(votes, sid, FALSE))

\* ================================================ decay runs that do not come on time
\* The decay worker's tick comes every ten minutes while it succeeds.  A tick that
\* raises (the database is unreachable) is caught and leaves the tables as they were,
\* and a stopped process leaves them too: time passes over the tiles with no decay run.
MaxDecayHour == 8
DecaySeverities == {1, 5}
DecayTypes == {"other"}

\* One tick of main.pulse_decay_worker that succeeds
pulse_decay_tick(cleanup) ==
    /\ pulse_tiles' = worker_turn(pulse_tiles, Minutes(now), cleanup)
    /\ resp' = Response("pulse_decay_tick", "", "", IF cleanup THEN "cleanup" ELSE "ok")
    /\ UNCHANGED <<now, report_vars>>

\* An hour in which every tick of main.pulse_decay_worker raises, or none runs
pulse_decay_ticks_raise ==
    /\ now < MaxDecayHour
    /\ now' = now + 1
    /\ resp' = Response("pulse_decay_worker", "", "", "error")
    /\ UNCHANGED <<pulse_tiles, report_vars>>

NextDecay ==
    \/ \E sid \in AllSignalIds, uid \in Reporters, st \in DecayTypes,
          sev \in DecaySeverities :
          now \in ReportHours /\ Uncounted(report_safety_signal(sid, uid, st, sev))
    \/ aggregate_pulse_tiles
    \/ \E cleanup \in BOOLEAN : pulse_decay_tick(cleanup)
    \/ pulse_decay_ticks_raise

SpecDecay == Init /\ [][NextDecay]_vars

\* C24: after a decay run no tile the run went over is left with an intensity at or
\* below the cutoff 0.05.  Intensities are cut to thousandths here, so a tile counts
\* as at or below the cutoff when it is a thousandth or more below it.
C24_NoTileAtOrBelowCutoff ==
    [][resp'.op = "pulse_decay_tick" =>
          \A tile_id \in TileIds :
              (IsActivePulse(pulse_tiles[tile_id], Minutes(now))
                  /\ pulse_tiles'[tile_id].row = "live")
              => pulse_tiles'[tile_id].intensity >= DECAY_DELETE_THRESHOLD]_vars

\* C25: decay_pulses run again at the time of a decay run, with no aggregation in
\* between, leaves the same tiles with the same intensities.
C25_DecayIdempotent ==
    [][resp'.op = "pulse_decay_tick" =>
          LET again == decay_pulses(pulse_tiles', Minutes(now'))
          IN  \A tile_id \in TileIds :
                  /\ again[tile_id].row = pulse_tiles'[tile_id].row
                  /\ again[tile_id].intensity = pulse_tiles'[tile_id].intensity]_vars

\* A decay run has just lowered the intensity of a tile that stays
C25_Witness ==
    /\ resp.op = "pulse_decay_tick"
    /\ \E tile_id \in TileIds :
          /\ pulse_tiles[tile_id].row = "live"
          /\ pulse_tiles[tile_id].last_updated = Minutes(now)
          /\ pulse_tiles[tile_id].intensity < pulse_tiles[tile_id].aggregated_intensity

\* C26: every pulse tile has an intensity in [0, 1] and a radius in [200, 500] that is
\* 200 + intensity * 300 of its intensity, cut to whole metres as upsert_pulse does.
C26_RadiusFollowsIntensity ==
    \A tile_id \in TileIds :
        pulse_tiles[tile_id].row = "live" =>
            /\ pulse_tiles[tile_id].intensity \in 0..1000
            /\ pulse_tiles[tile_id].radius \in DEFAULT_RADIUS..MAX_RADIUS
            /\ pulse_tiles[tile_id].radius =
                  DEFAULT_RADIUS
                    + (pulse_tiles[tile_id].intensity * (MAX_RADIUS - DEFAULT_RADIUS)) \div 1000

\* ======================================================= two aggregation runs at once
\* The refresh worker's thread, the background task of POST /report and POST
\* /pulses/refresh each run aggregate_pulse_tiles in a session of their own.  A run
\* computes a tile from the reports it read, and upsert_pulse queries the tile's row
\* and then commits an INSERT or an UPDATE.

\* pulse_aggregation.py 453-492 and 397-436: the run's reports and values for the
\* tile, and the query for the tile's row
upsert_query(q, tile_id) ==
    /\ req[q].pc = "idle"
    /\ LET reports == aggregate_reports_per_tile(signals, now, tile_id)
           intensity == calculate_weighted_intensity(signals, now, reports)
       IN  IF reports = {} \/ intensity < MIN_PULSE_INTENSITY
           THEN /\ resp' = Response("aggregate_pulse_tiles", tile_id, q, "ok")
                /\ UNCHANGED req
           ELSE /\ \E reason \in get_dominant_reason(signals, reports) :
                      req' = [req EXCEPT ![q] =
                          [pc |-> "queried", tile_id |-> tile_id,
                           found |-> pulse_tiles[tile_id].row = "live",
                           intensity |-> intensity, dominant_reason |-> reason,
                           confidence |-> calculate_tile_confidence(signals, reports),
                           signal_count |-> Cardinality(reports)]]
                /\ UNCHANGED resp
    /\ UNCHANGED <<now, signals, votes, device_activity, uniqueConstraint, steps, quiet,
                   aside>>

\* pulse_aggregation.py 438-451: the fields are set and the session commits.  A run
\* that found no row commits an INSERT, which the primary key tile_id (models.py 157)
\* refuses when the row has been inserted since.
upsert_commit(q) ==
    /\ req[q].pc = "queried"
    /\ LET r == req[q]
       IN  IF ~r.found /\ pulse_tiles[r.tile_id].row = "live"
           THEN /\ resp' = Response("aggregate_pulse_tiles", r.tile_id, q, "integrity_error")
                /\ UNCHANGED pulse_tiles
           ELSE /\ pulse_tiles' = [pulse_tiles EXCEPT ![r.tile_id] =
                       upsert_pulse(@, Minutes(now), r.intensity, r.dominant_reason,
                                    r.confidence, r.signal_count)]
                /\ resp' = Response("aggregate_pulse_tiles", r.tile_id, q, "ok")
    /\ req' = [req EXCEPT ![q] = NoRequest]
    /\ UNCHANGED <<now, signals, votes, device_activity, uniqueConstraint, steps, quiet,
                   rate_vars, spike_vars, workers, cache>>

NextUpsert ==
    \/ \E sid \in AllSignalIds, uid \in Reporters, st \in DecayTypes,
          sev \in DecaySeverities :
          req = [q \in RequestIds |-> NoRequest]
             /\ Uncounted(report_safety_signal(sid, uid, st, sev))
    \/ \E q \in RequestIds, tile_id \in TileIds : upsert_query(q, tile_id)
    \/ \E q \in RequestIds : upsert_commit(q)

SpecUpsert == Init /\ [][NextUpsert]_vars

\* C27: when two aggregation runs compute the same tile at once, neither fails (the
\* table holds one row a tile id by its primary key).
C27_ConcurrentRunsSucceed ==
    [][resp'.op = "aggregate_pulse_tiles" => resp'.code = "ok"]_vars

\* C28: every report that is accepted is created pending, with no votes, valid, with a
\* vote window that ends after its creation and an expires_at of creation + 24 hours.
C28_AcceptedReportHasWindows ==
    [][(resp'.op \in {"report_safety_signal", "create_report"} /\ resp'.code = "ok") =>
          LET s == signals'[resp'.sid]
          IN  /\ s.status = "pending"
              /\ s.true_votes = 0 /\ s.false_votes = 0
              /\ s.is_valid
              /\ s.vote_window_expires_at > s.timestamp
              /\ s.expires_at = s.timestamp + EXPIRATION_HOURS]_vars

\* One report, a crowd of voters, and time
NextSettled ==
    \/ NextVoters
    \/ \E t \in TimePoints : Uncounted(Tick(t))

SpecSettled == Init /\ [][NextSettled]_vars

\* C29: a vote cast on a report that is verified or disputed leaves its status.
C29_CastVoteKeepsSettledStatus ==
    [][(/\ resp'.op \in VoteOps
        /\ resp'.code = "ok"
        /\ signals[resp'.sid].status \in {"verified", "disputed"})
       => signals'[resp'.sid].status = signals[resp'.sid].status]_vars

\* process_vote has just counted a vote on a report that was verified or disputed at
\* an earlier time
C29_Witness ==
    /\ resp.op = "process_vote"
    /\ resp.code = "ok"
    /\ \/ signals[resp.sid].status = "verified" /\ signals[resp.sid].verified_at < now
       \/ signals[resp.sid].status = "disputed" /\ signals[resp.sid].disputed_at < now

\* The requests of a client that were handed on within the window that ends at time t
PassedInWindow(passed, t) == Len(SelectSeq(passed, LAMBDA x : t - x < WINDOW))

\* C30 as stated, for every request: a request is handed on only while fewer than
\* the limit of its client were handed on within the window, and is answered 429
\* otherwise.
C30_AtMostLimitPassAnyPath ==
    [][resp'.op = "dispatch" =>
          LET client_id == resp'.uid
              limit == IF resp'.authorized THEN AUTHENTICATED_LIMIT ELSE ANONYMOUS_LIMIT
              before == PassedInWindow(in_memory_requests[client_id], current_time)
          IN  /\ before >= limit => resp'.code = "429"
              /\ resp'.code = "call_next" => before < limit]_vars

\* C30: for a request to a path that is rate limited, the request is handed on only
\* while fewer than the limit of its client (60 without an Authorization header, 200
\* with one) were handed on within the window, and it is then counted; otherwise it is
\* answered 429 and not counted.  No window ever holds more than 200 counted requests.
C30_AtMostLimitPass ==
    [][(resp'.op = "dispatch" /\ ~SkipsRateLimit(resp'.path)) =>
          LET client_id == resp'.uid
              limit == IF resp'.authorized THEN AUTHENTICATED_LIMIT ELSE ANONYMOUS_LIMIT
              before == PassedInWindow(in_memory_requests[client_id], current_time)
              after == PassedInWindow(in_memory_requests'[client_id], current_time')
          IN  /\ before >= limit => (resp'.code = "429" /\ after = before)
              /\ before < limit => (resp'.code = "call_next" /\ after = before + 1)
              /\ after <= AUTHENTICATED_LIMIT]_vars

\* A request without an Authorization header has just been answered 429 with 60
\* requests of its client in the window
C30_Witness ==
    /\ resp.op = "dispatch"
    /\ resp.code = "429"
    /\ ~resp.authorized
    /\ PassedInWindow(in_memory_requests[resp.uid], current_time) >= ANONYMOUS_LIMIT

\* =================================================== two POST /report requests at once
\* Each request runs report_safety_signal in a session of its own: it computes the
\* trust, builds the report, loads the identity's device_activity row, and commits.

\* The identity has no device_activity row yet, or the row of one earlier report that
\* it has deleted since (delete_report leaves device_activity as it is)
EarlierActivity == [NoActivity EXCEPT !.row = TRUE, !.submission_count = 1,
                                      !.last_submission = 0]

InitSubmit ==
    /\ now = 0
    /\ signals = [sid \in AllSignalIds |-> AbsentSignal]
    /\ votes = EmptyBag
    /\ device_activity \in {[uid \in AllUsers |-> NoActivity],
                            [uid \in AllUsers |->
                                IF uid \in Reporters THEN EarlierActivity ELSE NoActivity]}
    /\ resp = Response("init", "", "", "ok")
    /\ req = [q \in RequestIds |-> NoRequest]
    /\ steps = 0
    /\ quiet = FALSE
    /\ pulse_tiles = [tile_id \in TileIds |-> AbsentTile]
    /\ in_memory_requests = [client_id \in Clients |-> <<>>]
    /\ current_time = 0
    /\ spikes = {}
    /\ workers = [w \in Workers |-> StartedWorker]
    /\ cache = NoCache
    /\ uniqueConstraint = FALSE
    /\ tile_reports = NoTileReports

\* routes/report.py 28-85: the request is validated, the trust computed, the report
\* built under a fresh uuid, and the device_activity row loaded
submit_load(q, sid, uid, signal_type, severity) ==
    /\ req[q].pc = "idle"
    /\ signals[sid].row = "absent"
    /\ \A p \in RequestIds : req[p].pc = "idle" \/ req[p].sid # sid
    /\ severity \in 1..5
    /\ signal_type \in SignalType
    /\ req' = [req EXCEPT ![q] =
           [pc |-> "loaded", sid |-> sid, uid |-> uid, signal_type |-> signal_type,
            severity |-> severity, timestamp |-> now,
            trust_score |-> calculate_trust_score(device_activity[uid], TRUE),
            found |-> device_activity[uid].row,
            submission_count |-> device_activity[uid].submission_count,
            anomaly_score |-> device_activity[uid].anomaly_score]]
    /\ UNCHANGED <<now, signals, votes, device_activity, resp, uniqueConstraint, steps,
                   quiet, aside>>

\* routes/report.py 86-93: a row that was not found is built with submission_count 0,
\* the count is incremented, and the session commits the report and the row.  The
\* INSERT of a row that was not found fails on the primary key device_hash when the
\* row has been inserted since, and nothing is written.
submit_commit(q) ==
    /\ req[q].pc = "loaded"
    /\ LET r == req[q]
       IN  IF ~r.found /\ device_activity[r.uid].row
           THEN /\ resp' = ReportResponse(r.sid, r.uid, r.signal_type, r.severity,
                                          "integrity_error")
                /\ UNCHANGED <<signals, device_activity>>
           ELSE /\ signals' = [signals EXCEPT ![r.sid] =
                       [AbsentSignal EXCEPT !.row = "live", !.user_id = r.uid,
                           !.signal_type = r.signal_type,
                           !.severity = r.severity, !.timestamp = r.timestamp,
                           !.trust_score = r.trust_score, !.is_valid = TRUE,
                           !.confidence_score = 500, !.severity_weight = 500]]
                /\ device_activity' = [device_activity EXCEPT ![r.uid] =
                       [row |-> TRUE,
                        submission_count |-> r.submission_count + 1,
                        last_submission |-> now,
                        anomaly_score |-> IF r.found THEN device_activity[r.uid].anomaly_score
                                          ELSE 0]]
                /\ resp' = ReportResponse(r.sid, r.uid, r.signal_type, r.severity, "ok")
    /\ req' = [req EXCEPT ![q] = NoRequest]
    /\ UNCHANGED <<now, votes, uniqueConstraint, steps, quiet, aside>>

NextSubmit ==
    \/ \E q \in RequestIds, sid \in AllSignalIds, uid \in Reporters,
          st \in ReportedTypes, sev \in DecaySeverities :
          submit_load(q, sid, uid, st, sev)
    \/ \E q \in RequestIds : submit_commit(q)
    \/ \E t \in TimePoints : req = [q \in RequestIds |-> NoRequest] /\ Uncounted(Tick(t))

SpecSubmit == InitSubmit /\ [][NextSubmit]_vars

\* C31: every POST /report that succeeds leaves the identity's one device_activity
\* row with a submission_count one higher than the committed count before it, so two
\* requests that both succeed raise it by 2; no row is ever deleted.
C31_EverySubmissionCounted ==
    [][/\ \A uid \in AllUsers : device_activity[uid].row => device_activity'[uid].row
       /\ (/\ \E q \in RequestIds : req[q].pc = "loaded" /\ req'[q].pc = "idle"
           /\ resp'.op = "report_safety_signal"
           /\ resp'.code = "ok") =>
             device_activity'[resp'.uid].submission_count
                 = device_activity[resp'.uid].submission_count + 1]_vars

\* C32: every report's severity_weight lies in [0.2, 1.0], after any number of
\* maintenance runs.
C32_SeverityWeightBounded ==
    \A sid \in AllSignalIds :
        signals[sid].row = "live" =>
            signals[sid].severity_weight \in MIN_TRUST_SCORE..1000

\* ============================================================= GET /pulse and its cache
CACHE_SECONDS == 300
SECONDS_PER_DAY == 86400
SECONDS_PER_HOUR == 3600
CacheTimes == {0, 299, 300, 86400, 86410}

\* What GET /pulse answers from the tiles get_pulses_in_radius returns
PulseTileResponses(tiles, m) ==
    {[tile_id |-> tile_id,
      pulse_score |-> (tiles[tile_id].intensity * 100) \div 1000,
      confidence |-> tiles[tile_id].confidence_level] :
        tile_id \in {x \in TileIds : IsActivePulse(tiles[x], m)}}

\* timedelta.seconds: the seconds of a time span without its whole days
timedelta_seconds(span) == span % SECONDS_PER_DAY

\* routes/pulse.py 205-208: whether the cached answer is served
cache_hit(entry, t) ==
    entry.stored /\ timedelta_seconds(t - entry.timestamp) < CACHE_SECONDS

\* GET /pulse for one cache key
get_safety_pulse ==
    /\ IF cache_hit(cache, current_time)
       THEN /\ resp' = [op |-> "get_safety_pulse", sid |-> "", uid |-> "", code |-> "ok",
                        cached |-> TRUE, tiles |-> cache.data]
            /\ UNCHANGED cache
       ELSE LET data == PulseTileResponses(pulse_tiles, Minutes(now))
            IN  /\ resp' = [op |-> "get_safety_pulse", sid |-> "", uid |-> "",
                            code |-> "ok", cached |-> FALSE, tiles |-> data]
                /\ cache' = [stored |-> TRUE, data |-> data, timestamp |-> current_time]
    /\ UNCHANGED <<now, signals, votes, device_activity, uniqueConstraint, req, steps,
                   quiet, pulse_tiles, rate_vars, spike_vars, workers>>

\* The clock moves on: datetime.now() in seconds and in whole hours
TickCache(t) ==
    /\ t > current_time
    /\ current_time' = t
    /\ now' = t \div SECONDS_PER_HOUR
    /\ resp' = Response("tick", "", "", "ok")
    /\ UNCHANGED <<signals, votes, device_activity, uniqueConstraint, req, steps, quiet,
                   pulse_tiles, in_memory_requests, spike_vars, workers, cache>>

NextCache ==
    \/ \E sid \in AllSignalIds, uid \in Reporters, st \in DecayTypes,
          sev \in DecaySeverities :
          Uncounted(report_safety_signal(sid, uid, st, sev))
    \/ aggregate_pulse_tiles
    \/ get_safety_pulse
    \/ \E t \in CacheTimes : TickCache(t)

SpecCache == Init /\ [][NextCache]_vars

\* C33: GET /pulse answers from its cache only while less than 300 seconds have
\* passed since the entry was stored; otherwise it answers from the current tiles.
C33_NoStaleCachedPulse ==
    [][resp'.op = "get_safety_pulse" =>
          IF resp'.cached
          THEN cache.stored /\ current_time - cache.timestamp < CACHE_SECONDS
          ELSE resp'.tiles = PulseTileResponses(pulse_tiles, Minutes(now))]_vars

\* ============================================================== what a run writes
\* C34: an aggregation run writes exactly the tiles that have reports of an intensity
\* of at least 0.05, with expires_at the run time + 24 hours and signal_count the
\* number of their reports, and leaves every other tile as it was.
C34_RunWritesExactlyStrongTiles ==
    [][resp'.op = "aggregate_pulse_tiles" =>
          \A tile_id \in TileIds :
              LET reports == aggregate_reports_per_tile(signals, now, tile_id)
                  intensity == calculate_weighted_intensity(signals, now, reports)
              IN  IF reports # {} /\ intensity >= MIN_PULSE_INTENSITY
                  THEN /\ pulse_tiles'[tile_id].row = "live"
                       /\ pulse_tiles'[tile_id].intensity = intensity
                       /\ pulse_tiles'[tile_id].expires_at = Minutes(now) + 24 * 60
                       /\ pulse_tiles'[tile_id].last_updated = Minutes(now)
                       /\ pulse_tiles'[tile_id].signal_count = Cardinality(reports)
                  ELSE pulse_tiles'[tile_id] = pulse_tiles[tile_id]]_vars

\* A run has gone over a tile that exists and whose reports are now too weak, after
\* an earlier run wrote it
C34_Witness ==
    /\ resp.op = "aggregate_pulse_tiles"
    /\ \E tile_id \in TileIds :
          LET reports == aggregate_reports_per_tile(signals, now, tile_id)
              intensity == calculate_weighted_intensity(signals, now, reports)
          IN  /\ pulse_tiles[tile_id].row = "live"
              /\ reports # {}
              /\ intensity < MIN_PULSE_INTENSITY
              /\ pulse_tiles[tile_id].last_updated < Minutes(now)

\* ============================================================ tallies and vote rows
\* The vote rows of a report with the given answer
VoteRecords(vs, sid, is_true) ==
    SumOf([uid \in AllUsers |-> CopiesIn(Vote(sid, uid, is_true), vs)], AllUsers)

\* C35: after any sequence of accepted votes and vote removals, one request at a time,
\* a report's true_votes is the number of its vote rows that say true and its
\* false_votes the number that say false.
C35_TalliesCountVoteRows ==
    \A sid \in SignalIds :
        Live(sid) =>
            /\ signals[sid].true_votes = VoteRecords(votes, sid, TRUE)
            /\ signals[sid].false_votes = VoteRecords(votes, sid, FALSE)

\* ======================================================= verified and its confidence
\* C36: a report whose status is verified has a confidence_score of at least 0.7,
\* after any sequence of votes, vote removals and decay or maintenance runs.
C36_VerifiedHasConfidence ==
    \A sid \in SignalIds :
        (Live(sid) /\ signals[sid].status = "verified") =>
            signals[sid].confidence_score >= VERIFY_THRESHOLD

\* ================================================================ expired reports
\* C37: a report whose status is expired moves to no status but deleted: no vote,
\* vote removal, status batch or expiration sweep makes it pending, verified or
\* disputed.
C37_ExpiredOnlyToDeleted ==
    [][\A sid \in AllSignalIds :
          (/\ signals[sid].row = "live" /\ signals[sid].status = "expired"
           /\ signals'[sid].row = "live")
          => signals'[sid].status \in {"expired", "deleted"}]_vars

\* A vote has been removed from an expired report, which is still expired
C37_Witness ==
    /\ resp.op = "service_remove_vote" /\ resp.code = "ok"
    /\ signals[resp.sid].row = "live"
    /\ signals[resp.sid].status = "expired"
    /\ TotalVotes(signals[resp.sid]) < MIN_VOTES_FOR_STATUS_UPDATE

\* C38: a second expire_reports_batch right after a first, with nothing in between and
\* at the same time, expires no report and returns an expired count of 0.
C38_SecondSweepExpiresNothing ==
    [][(/\ resp.op = "expire_reports_batch"
        /\ resp'.op = "expire_reports_batch"
        /\ now' = now)
       => (/\ signals' = signals
           /\ resp'.expired_reports = 0)]_vars

\* =========================================================== trust of later reports
\* C39: for an authenticated identity whose anomaly score is 0, the trust given to a
\* report it submits is at least the trust given to each report it submitted before.
C39_TrustGrowsWithSubmissions ==
    [][(/\ \E q \in RequestIds : req[q].pc = "loaded" /\ req'[q].pc = "idle"
        /\ resp'.op = "report_safety_signal"
        /\ resp'.code = "ok"
        /\ device_activity'[resp'.uid].anomaly_score = 0)
       => \A earlier \in AllSignalIds :
              (/\ signals[earlier].row = "live"
               /\ signals[earlier].user_id = resp'.uid)
              => signals'[resp'.sid].trust_score >= signals[earlier].trust_score]_vars

\* ================================================= the vote that settles a report
\* POST /reports/{id}/vote counts a vote and leaves the status alone, so a report
\* stays pending under any number of such votes; here they come first, from the voters
\* of VoterNames in order, and then ReportLifecycleService.process_vote counts one vote
\* and is the first to look at the status.
MaxRouteVotes == 7
ServiceVoter == VoterNames[8]

NoServiceVoteYet(sid) == TotalVotes(signals[sid]) = BagCardinality(votes)

NextPrecedence ==
    \/ \E sid \in SignalIds, uid \in Reporters, sev \in Severities,
          st \in ReportedTypes :
          Uncounted(create_report(sid, uid, st, sev))
    \/ \E sid \in SignalIds, b \in BOOLEAN :
          /\ NoServiceVoteYet(sid)
          /\ BagCardinality(votes) < MaxRouteVotes
          /\ Uncounted(vote_on_report(sid, VoterNames[BagCardinality(votes) + 1], b))
    \/ \E sid \in SignalIds, b \in BOOLEAN :
          /\ NoServiceVoteYet(sid)
          /\ Uncounted(process_vote(sid, ServiceVoter, b))

SpecPrecedence == Init /\ [][NextPrecedence]_vars

\* C40: a vote that brings a pending report to 3 votes or more with a confidence of at
\* least 0.7 and a downvote ratio of at least 0.3 makes it verified and not disputed,
\* and no vote sets both verified_at and disputed_at.
C40_VerifiedBeforeDisputed ==
    [][\A sid \in SignalIds :
          (/\ resp'.op = "process_vote" /\ resp'.code = "ok" /\ resp'.sid = sid
           /\ votes' # votes
           /\ signals[sid].status = "pending")
          => LET s2 == signals'[sid]
             IN  /\ ~(s2.verified_at # signals[sid].verified_at
                        /\ s2.disputed_at # signals[sid].disputed_at)
                 /\ (/\ TotalVotes(s2) >= MIN_VOTES_FOR_STATUS_UPDATE
                     /\ s2.confidence_score >= VERIFY_THRESHOLD
                     /\ s2.false_votes * 1000 >= DISPUTE_THRESHOLD * TotalVotes(s2))
                    => (/\ s2.status = "verified"
                        /\ s2.verified_at = now
                        /\ s2.disputed_at = NULL)]_vars

\* The one vote that process_vote has counted found the report pending and has made
\* it verified, with three of its nine votes against it
C40_Witness ==
    /\ resp.op = "process_vote" /\ resp.code = "ok"
    /\ Live(resp.sid)
    /\ TotalVotes(signals[resp.sid]) = BagCardinality(votes) + 1
    /\ signals[resp.sid].status = "verified"
    /\ signals[resp.sid].disputed_at = NULL
    /\ signals[resp.sid].confidence_score >= VERIFY_THRESHOLD
    /\ signals[resp.sid].false_votes * 1000
          >= DISPUTE_THRESHOLD * TotalVotes(signals[resp.sid])

====
